---- MODULE Spec2Model ----
(***************************************************************************)
(* Verification model of structunits: quantities carrying a magnitude in   *)
(* the family's standard unit, an FLT dimension triple and a display unit, *)
(* with the arithmetic, comparison and conversion operators of             *)
(* structunits/result.py and structunits/specific_units/*.py.              *)
(*                                                                         *)
(* Magnitudes are Python floats in the source.  They are modelled as exact *)
(* numbers of the form (n/d) * 2^p2 * 3^p3 * 5^p5 * M^pM * K^pK, where     *)
(* M = INCHES_PER_METER and K = KIPS_PER_KILONEWTON are the two constants  *)
(* of structunits.constants that are not powers of 2, 3 and 5; they are    *)
(* kept as positive indeterminates.  Rounding error of binary floating     *)
(* point is outside the model.                                             *)
(***************************************************************************)
EXTENDS Integers, Sequences, FiniteSets, TLC

VARIABLES a, b, xs, s, u, w, op, res, pc

vars == <<a, b, xs, s, u, w, op, res, pc>>

----------------------------------------------------------------------------
(* Exact arithmetic standing for Python's float operators.                  *)

Abs(x) == IF x < 0 THEN -x ELSE x

Min2(x, y) == IF x <= y THEN x ELSE y

RECURSIVE Gcd(_, _)
Gcd(x, y) == IF y = 0 THEN x ELSE Gcd(y, x % y)

RECURSIVE IPow(_, _)
IPow(x, k) == IF k <= 0 THEN 1 ELSE x * IPow(x, k - 1)

\* p-adic valuation of a non-zero integer and the cofactor left after it
RECURSIVE Val(_, _)
Val(x, p) == IF x % p = 0 THEN 1 + Val(x \div p, p) ELSE 0

RECURSIVE Strip(_, _)
Strip(x, p) == IF x % p = 0 THEN Strip(x \div p, p) ELSE x

Zero == [n |-> 0, d |-> 1, p2 |-> 0, p3 |-> 0, p5 |-> 0, pM |-> 0, pK |-> 0]

\* canonical form: n and d coprime to each other and to 2, 3, 5; d > 0
Canon(n, d, p2, p3, p5, pM, pK) ==
    IF n = 0 THEN Zero
    ELSE LET sg == IF n < 0 THEN -1 ELSE 1
             an == Abs(n)
             n1 == Strip(Strip(Strip(an, 2), 3), 5)
             d1 == Strip(Strip(Strip(d, 2), 3), 5)
             g  == Gcd(n1, d1)
         IN [n  |-> sg * (n1 \div g),
             d  |-> d1 \div g,
             p2 |-> p2 + Val(an, 2) - Val(d, 2),
             p3 |-> p3 + Val(an, 3) - Val(d, 3),
             p5 |-> p5 + Val(an, 5) - Val(d, 5),
             pM |-> pM,
             pK |-> pK]

\* float(i) for an integer literal i
FromInt(i) == Canon(i, 1, 0, 0, 0, 0, 0)

\* the float literal m e-k, such as 1e-3
Sci(m, k) == Canon(m, 1, -k, 0, -k, 0, 0)

One == [Zero EXCEPT !.n = 1]

NMul(x, y) ==
    Canon(x.n * y.n, x.d * y.d, x.p2 + y.p2, x.p3 + y.p3, x.p5 + y.p5,
          x.pM + y.pM, x.pK + y.pK)

\* 1.0 / x for x # 0
NInv(x) ==
    Canon((IF x.n < 0 THEN -1 ELSE 1) * x.d, Abs(x.n),
          -x.p2, -x.p3, -x.p5, -x.pM, -x.pK)

NDiv(x, y) == NMul(x, NInv(y))

NNeg(x) == [x EXCEPT !.n = -x.n]

\* x ** k for an integer k >= 0
RECURSIVE NPow(_, _)
NPow(x, k) == IF k <= 0 THEN One ELSE NMul(x, NPow(x, k - 1))

\* two numbers whose sum and order the representation can decide
Commensurable(x, y) ==
    x.n = 0 \/ y.n = 0 \/ (x.pM = y.pM /\ x.pK = y.pK)

NAdd(x, y) ==
    IF x.n = 0 THEN y
    ELSE IF y.n = 0 THEN x
    ELSE LET g2 == Min2(x.p2, y.p2)
             g3 == Min2(x.p3, y.p3)
             g5 == Min2(x.p5, y.p5)
             xi == x.n * IPow(2, x.p2 - g2) * IPow(3, x.p3 - g3) * IPow(5, x.p5 - g5)
             yi == y.n * IPow(2, y.p2 - g2) * IPow(3, y.p3 - g3) * IPow(5, y.p5 - g5)
         IN Canon(xi * y.d + yi * x.d, x.d * y.d, g2, g3, g5, x.pM, x.pK)

NSub(x, y) == NAdd(x, NNeg(y))

NAbs(x) == [x EXCEPT !.n = Abs(x.n)]

\* products of positive integers, saturating at 10^9 so that a comparison
\* never leaves the machine integers
SatMul(x, y) == IF x > 1000000000 \div y THEN 1000000000 ELSE x * y

RECURSIVE SatPow(_, _)
SatPow(p, k) == IF k <= 0 THEN 1 ELSE SatMul(p, SatPow(p, k - 1))

Pos(i) == IF i > 0 THEN i ELSE 0

\* numerator and denominator of a positive number without M and K
Numer(x) ==
    SatMul(SatMul(x.n, SatPow(2, Pos(x.p2))),
           SatMul(SatPow(3, Pos(x.p3)), SatPow(5, Pos(x.p5))))

Denom(x) ==
    SatMul(SatMul(x.d, SatPow(2, Pos(-x.p2))),
           SatMul(SatPow(3, Pos(-x.p3)), SatPow(5, Pos(-x.p5))))

\* x < y on floats.  M and K are positive, so the sign of a number is the
\* sign of n; two numbers of the same sign are compared through x / y
NLt(x, y) ==
    IF x.n <= 0 /\ y.n >= 0 THEN x.n < 0 \/ y.n > 0
    ELSE IF x.n >= 0 /\ y.n <= 0 THEN FALSE
    ELSE LET r == NDiv(NAbs(x), NAbs(y))
         IN  IF x.n > 0 THEN Numer(r) < Denom(r) ELSE Numer(r) > Denom(r)

NLe(x, y) == ~NLt(y, x)

----------------------------------------------------------------------------
(* structunits.constants: the module is imported by every unit enum but is *)
(* not among the sources; the values are the ones the enums' docstrings    *)
(* show (FOOT -> 12.0, POUND -> 0.001, SQUARE_FOOT -> 144.0) and the SI    *)
(* prefixes: 12 = 2^2 * 3, 100 = 2^2 * 5^2, 1000 = 2^3 * 5^3.              *)
(* INCHES_PER_METER and KIPS_PER_KILONEWTON stay symbolic.                 *)

INCHES_PER_FOOT == [Zero EXCEPT !.n = 1, !.p2 = 2, !.p3 = 1]

INCHES_PER_METER == [Zero EXCEPT !.n = 1, !.pM = 1]

MILLIMETERS_PER_METER == [Zero EXCEPT !.n = 1, !.p2 = 3, !.p5 = 3]

CENTIMETERS_PER_METER == [Zero EXCEPT !.n = 1, !.p2 = 2, !.p5 = 2]

POUNDS_PER_KIP == [Zero EXCEPT !.n = 1, !.p2 = 3, !.p5 = 3]

NEWTONS_PER_KILONEWTON == [Zero EXCEPT !.n = 1, !.p2 = 3, !.p5 = 3]

KIPS_PER_KILONEWTON == [Zero EXCEPT !.n = 1, !.pK = 1]

KILONEWTON_PER_MEGANEWTON == [Zero EXCEPT !.n = 1, !.p2 = 3, !.p5 = 3]

----------------------------------------------------------------------------
(* Unit enumerations: members in declaration order, and the conversion     *)
(* factor each member stores (FROM the unit TO the family's standard unit).*)

LengthUnit == <<"INCH", "FOOT", "MILLIMETER", "CENTIMETER", "METER">>

LengthUnit_factor ==
    "INCH" :> One
    @@ "FOOT" :> INCHES_PER_FOOT
    @@ "MILLIMETER" :> NDiv(INCHES_PER_METER, MILLIMETERS_PER_METER)
    @@ "CENTIMETER" :> NDiv(INCHES_PER_METER, CENTIMETERS_PER_METER)
    @@ "METER" :> INCHES_PER_METER

AreaUnit ==
    <<"SQUARE_INCH", "SQUARE_FOOT", "SQUARE_MILLIMETER", "SQUARE_CENTIMETER",
      "SQUARE_METER">>

AreaUnit_factor ==
    "SQUARE_INCH" :> One
    @@ "SQUARE_FOOT" :> NPow(INCHES_PER_FOOT, 2)
    @@ "SQUARE_MILLIMETER" :> NPow(NDiv(INCHES_PER_METER, MILLIMETERS_PER_METER), 2)
    @@ "SQUARE_CENTIMETER" :> NPow(NDiv(INCHES_PER_METER, CENTIMETERS_PER_METER), 2)
    @@ "SQUARE_METER" :> NPow(INCHES_PER_METER, 2)

LengthCubedUnit ==
    <<"INCHES_CUBED", "FEET_CUBED", "MILLIMETERS_CUBED", "METERS_CUBED",
      "CENTIMETERS_CUBED">>

LengthCubedUnit_factor ==
    "INCHES_CUBED" :> One
    @@ "FEET_CUBED" :> NPow(INCHES_PER_FOOT, 3)
    @@ "MILLIMETERS_CUBED" :> NPow(NDiv(INCHES_PER_METER, MILLIMETERS_PER_METER), 3)
    @@ "METERS_CUBED" :> NPow(INCHES_PER_METER, 3)
    @@ "CENTIMETERS_CUBED" :> NPow(NDiv(INCHES_PER_METER, CENTIMETERS_PER_METER), 3)

LengthToThe4thUnit ==
    <<"INCHES_TO_THE_4TH", "FEET_TO_THE_4TH", "MILLIMETERS_TO_THE_4TH",
      "METERS_TO_THE_4TH", "CENTIMETERS_TO_THE_4TH">>

LengthToThe4thUnit_factor ==
    "INCHES_TO_THE_4TH" :> One
    @@ "FEET_TO_THE_4TH" :> NPow(INCHES_PER_FOOT, 4)
    @@ "MILLIMETERS_TO_THE_4TH" :> NPow(NDiv(INCHES_PER_METER, MILLIMETERS_PER_METER), 4)
    @@ "METERS_TO_THE_4TH" :> NPow(INCHES_PER_METER, 4)
    @@ "CENTIMETERS_TO_THE_4TH" :> NPow(NDiv(INCHES_PER_METER, CENTIMETERS_PER_METER), 4)

ForceUnit == <<"POUND", "KIP", "NEWTON", "KILONEWTON">>

ForceUnit_factor ==
    "POUND" :> NDiv(One, POUNDS_PER_KIP)
    @@ "KIP" :> One
    @@ "NEWTON" :> NDiv(KIPS_PER_KILONEWTON, NEWTONS_PER_KILONEWTON)
    @@ "KILONEWTON" :> KIPS_PER_KILONEWTON

MomentUnit ==
    <<"POUND_INCH", "POUND_FOOT", "KIP_INCH", "KIP_FOOT", "NEWTON_METER",
      "KILONEWTON_METER", "KILONEWTON_MILLIMETER", "NEWTON_MILLIMETER",
      "KILONEWTON_CENTIMETER", "NEWTON_CENTIMETER">>

MomentUnit_factor ==
    "POUND_INCH" :> NDiv(One, POUNDS_PER_KIP)
    @@ "POUND_FOOT" :> NMul(NDiv(One, POUNDS_PER_KIP), INCHES_PER_FOOT)
    @@ "KIP_INCH" :> One
    @@ "KIP_FOOT" :> INCHES_PER_FOOT
    @@ "NEWTON_METER" :>
         NMul(NDiv(KIPS_PER_KILONEWTON, NEWTONS_PER_KILONEWTON), INCHES_PER_METER)
    @@ "KILONEWTON_METER" :> NMul(KIPS_PER_KILONEWTON, INCHES_PER_METER)
    @@ "KILONEWTON_MILLIMETER" :>
         NDiv(NMul(KIPS_PER_KILONEWTON, INCHES_PER_METER), MILLIMETERS_PER_METER)
    @@ "NEWTON_MILLIMETER" :>
         NDiv(NMul(NDiv(KIPS_PER_KILONEWTON, NEWTONS_PER_KILONEWTON), INCHES_PER_METER),
              MILLIMETERS_PER_METER)
    @@ "KILONEWTON_CENTIMETER" :>
         NDiv(NMul(KIPS_PER_KILONEWTON, INCHES_PER_METER), CENTIMETERS_PER_METER)
    @@ "NEWTON_CENTIMETER" :>
         NDiv(NMul(NDiv(KIPS_PER_KILONEWTON, NEWTONS_PER_KILONEWTON), INCHES_PER_METER),
              CENTIMETERS_PER_METER)

ForcePerLengthUnit ==
    <<"POUND_PER_INCH", "POUND_PER_FOOT", "KIP_PER_INCH", "KIP_PER_FOOT",
      "NEWTON_PER_METER", "KILONEWTON_PER_METER", "NEWTON_PER_MILLIMETER",
      "KILONEWTON_PER_MILLIMETER", "NEWTON_PER_CENTIMETER",
      "KILONEWTON_PER_CENTIMETER">>

ForcePerLengthUnit_factor ==
    "POUND_PER_INCH" :> NDiv(One, POUNDS_PER_KIP)
    @@ "POUND_PER_FOOT" :> NDiv(NDiv(One, POUNDS_PER_KIP), INCHES_PER_FOOT)
    @@ "KIP_PER_INCH" :> One
    @@ "KIP_PER_FOOT" :> NDiv(One, INCHES_PER_FOOT)
    @@ "NEWTON_PER_METER" :>
         NDiv(NDiv(KIPS_PER_KILONEWTON, NEWTONS_PER_KILONEWTON), INCHES_PER_METER)
    @@ "KILONEWTON_PER_METER" :> NDiv(KIPS_PER_KILONEWTON, INCHES_PER_METER)
    @@ "NEWTON_PER_MILLIMETER" :>
         NMul(NDiv(NDiv(KIPS_PER_KILONEWTON, NEWTONS_PER_KILONEWTON), INCHES_PER_METER),
              MILLIMETERS_PER_METER)
    @@ "KILONEWTON_PER_MILLIMETER" :>
         NMul(NDiv(KIPS_PER_KILONEWTON, INCHES_PER_METER), MILLIMETERS_PER_METER)
    @@ "NEWTON_PER_CENTIMETER" :>
         NMul(NDiv(NDiv(KIPS_PER_KILONEWTON, NEWTONS_PER_KILONEWTON), INCHES_PER_METER),
              CENTIMETERS_PER_METER)
    @@ "KILONEWTON_PER_CENTIMETER" :>
         NMul(NDiv(KIPS_PER_KILONEWTON, INCHES_PER_METER), CENTIMETERS_PER_METER)

StressUnit == <<"PSI", "KSI", "PSF", "KSF", "KPA", "MPA", "PA">>

StressUnit_factor ==
    "PSI" :> NDiv(One, POUNDS_PER_KIP)
    @@ "KSI" :> One
    @@ "PSF" :> NDiv(NDiv(One, POUNDS_PER_KIP), NMul(INCHES_PER_FOOT, INCHES_PER_FOOT))
    @@ "KSF" :> NDiv(One, NMul(INCHES_PER_FOOT, INCHES_PER_FOOT))
    @@ "KPA" :>
         NMul(NDiv(One, NMul(INCHES_PER_METER, INCHES_PER_METER)), KIPS_PER_KILONEWTON)
    @@ "MPA" :>
         NMul(NMul(NDiv(One, NMul(INCHES_PER_METER, INCHES_PER_METER)),
                   KIPS_PER_KILONEWTON), KILONEWTON_PER_MEGANEWTON)
    @@ "PA" :>
         NMul(NMul(NDiv(One, NMul(INCHES_PER_METER, INCHES_PER_METER)),
                   KIPS_PER_KILONEWTON), NEWTONS_PER_KILONEWTON)

\* sentinel units of the two unit-less classes
UNITLESS_UNIT == "_UNITLESS_UNIT"

UNDEFINED_UNIT == "_UNDEFINED_UNIT"

Range(f) == {f[i] : i \in DOMAIN f}

\* the unit enum (as a set of members) that belongs to a unit-bearing class
UnitsOf(cls) ==
    CASE cls = "Length" -> Range(LengthUnit)
      [] cls = "Area" -> Range(AreaUnit)
      [] cls = "LengthCubed" -> Range(LengthCubedUnit)
      [] cls = "LengthToThe4th" -> Range(LengthToThe4thUnit)
      [] cls = "Force" -> Range(ForceUnit)
      [] cls = "Moment" -> Range(MomentUnit)
      [] cls = "ForcePerLength" -> Range(ForcePerLengthUnit)
      [] cls = "Stress" -> Range(StressUnit)
      [] cls = "Unitless" -> {UNITLESS_UNIT}
      [] cls = "Undefined" -> {UNDEFINED_UNIT}

\* unit.get_conversion_factor()
get_conversion_factor(unit) ==
    (LengthUnit_factor @@ AreaUnit_factor @@ LengthCubedUnit_factor
       @@ LengthToThe4thUnit_factor @@ ForceUnit_factor @@ MomentUnit_factor
       @@ ForcePerLengthUnit_factor @@ StressUnit_factor)[unit]

----------------------------------------------------------------------------
(* FLT: force / length / time exponents, and the classification table.     *)

FLT(f, l, t) == [force_degree |-> f, length_degree |-> l, time_degree |-> t]

AREA == FLT(0, 2, 0)

DENSITY == FLT(1, -3, 0)

FORCE == FLT(1, 0, 0)

FORCE_PER_LENGTH == FLT(1, -1, 0)

FLEXURAL_STIFFNESS == FLT(1, 2, 0)

LENGTH == FLT(0, 1, 0)

LENGTH_CUBED == FLT(0, 3, 0)

LENGTH_TO_THE_4TH == FLT(0, 4, 0)

LENGTH_TO_THE_6TH == FLT(0, 6, 0)

MOMENT == FLT(1, 1, 0)

STRESS == FLT(1, -2, 0)

TIME == FLT(0, 0, 1)

UNITLESS == FLT(0, 0, 0)

ACCELERATION == FLT(0, 1, -2)

\* FLT.__eq__: structural comparison of the three degrees
FLT__eq__(x, y) ==
    /\ x.force_degree = y.force_degree
    /\ x.length_degree = y.length_degree
    /\ x.time_degree = y.time_degree

\* the tuple whose hash FLT.__hash__ returns; hash() of a tuple of ints is a
\* function of its elements
FLT__hash__(x) == <<x.force_degree, x.length_degree, x.time_degree>>

\* a sum that keeps the left operand's time degree
FLT__add__no_time(x, y) ==
    FLT(x.force_degree + y.force_degree, x.length_degree + y.length_degree,
        x.time_degree)

FLT__add__(x, y) ==
    FLT(x.force_degree + y.force_degree,
        x.length_degree + y.length_degree,
        x.time_degree + y.time_degree)

FLT__sub__(x, y) ==
    FLT(x.force_degree - y.force_degree,
        x.length_degree - y.length_degree,
        x.time_degree - y.time_degree)

FLT__neg__(x) == FLT(-x.force_degree, -x.length_degree, -x.time_degree)

\* FLT.__mul__ with an int operand (the float branch snaps to the same
\* integers when the operand is integer-valued)
FLT__mul__(x, k) == FLT(x.force_degree * k, x.length_degree * k, x.time_degree * k)

\* FLT.__truediv__ with a non-zero int operand: the quotient degrees when all
\* three are whole, else UNITLESS
FLT__truediv__(x, k) ==
    LET m == IF k < 0 THEN -k ELSE k
        y == IF k < 0 THEN FLT__neg__(x) ELSE x
    IN  IF y.force_degree % m = 0 /\ y.length_degree % m = 0 /\ y.time_degree % m = 0
        THEN FLT(y.force_degree \div m, y.length_degree \div m, y.time_degree \div m)
        ELSE UNITLESS

\* the members the UnitType enum declares
UnitType ==
    {"UNITLESS", "FORCE", "LENGTH", "AREA", "LENGTH_CUBED", "LENGTH_TO_THE_4TH",
     "MOMENT", "FORCE_PER_LENGTH", "STRESS", "UNDEFINED"}

\* the attribute access UnitType.<name>: a name the enum does not declare
\* raises AttributeError
UnitTypeAttr(name) == IF name \in UnitType THEN name ELSE "AttributeError"

get_type(self) ==
    IF FLT__eq__(self, AREA) THEN UnitTypeAttr("AREA")
    ELSE IF FLT__eq__(self, DENSITY) THEN UnitTypeAttr("DENSITY")
    ELSE IF FLT__eq__(self, FORCE) THEN UnitTypeAttr("FORCE")
    ELSE IF FLT__eq__(self, FORCE_PER_LENGTH) THEN UnitTypeAttr("FORCE_PER_LENGTH")
    ELSE IF FLT__eq__(self, FLEXURAL_STIFFNESS) THEN UnitTypeAttr("FLEXURAL_STIFFNESS")
    ELSE IF FLT__eq__(self, LENGTH) THEN UnitTypeAttr("LENGTH")
    ELSE IF FLT__eq__(self, LENGTH_CUBED) THEN UnitTypeAttr("LENGTH_CUBED")
    ELSE IF FLT__eq__(self, LENGTH_TO_THE_4TH) THEN UnitTypeAttr("LENGTH_TO_THE_4TH")
    ELSE IF FLT__eq__(self, LENGTH_TO_THE_6TH) THEN UnitTypeAttr("LENGTH_TO_THE_6TH")
    ELSE IF FLT__eq__(self, MOMENT) THEN UnitTypeAttr("MOMENT")
    ELSE IF FLT__eq__(self, STRESS) THEN UnitTypeAttr("STRESS")
    ELSE IF FLT__eq__(self, TIME) THEN UnitTypeAttr("TIME")
    ELSE IF FLT__eq__(self, UNITLESS) THEN UnitTypeAttr("UNITLESS")
    ELSE IF FLT__eq__(self, ACCELERATION) THEN UnitTypeAttr("ACCELERATION")
    ELSE UnitTypeAttr("UNDEFINED")

----------------------------------------------------------------------------
(* The concrete Result classes: conversion tables, constructors.           *)

UnitClasses ==
    {"Length", "Area", "LengthCubed", "LengthToThe4th", "Force", "Moment",
     "ForcePerLength", "Stress"}

Classes == UnitClasses \cup {"Unitless", "Undefined"}

\* the fixed FLT each unit-bearing class passes to Result.__init__
ClassFLT(cls) ==
    CASE cls = "Length" -> LENGTH
      [] cls = "Area" -> AREA
      [] cls = "LengthCubed" -> LENGTH_CUBED
      [] cls = "LengthToThe4th" -> LENGTH_TO_THE_4TH
      [] cls = "Force" -> FORCE
      [] cls = "Moment" -> MOMENT
      [] cls = "ForcePerLength" -> FORCE_PER_LENGTH
      [] cls = "Stress" -> STRESS
      [] cls = "Unitless" -> UNITLESS

default_unit(cls) ==
    CASE cls = "Length" -> "INCH"
      [] cls = "Area" -> "SQUARE_INCH"
      [] cls = "LengthCubed" -> "INCHES_CUBED"
      [] cls = "LengthToThe4th" -> "INCHES_TO_THE_4TH"
      [] cls = "Force" -> "KIP"
      [] cls = "Moment" -> "KIP_INCH"
      [] cls = "ForcePerLength" -> "KIP_PER_INCH"
      [] cls = "Stress" -> "KSI"

\* Length, Area, LengthCubed, LengthToThe4th and Moment derive both tables
\* from the enum: _TO_STD[u] = factor, _FROM_STD[u] = 1.0 / factor
Derived_TO_STD(cls) == [unit \in UnitsOf(cls) |-> get_conversion_factor(unit)]

Derived_FROM_STD(cls) ==
    [unit \in UnitsOf(cls) |-> NDiv(One, get_conversion_factor(unit))]

\* Force, ForcePerLength and Stress spell both tables out
Force_TO_KIP ==
    "POUND" :> NDiv(One, POUNDS_PER_KIP)
    @@ "KIP" :> One
    @@ "NEWTON" :> NDiv(KIPS_PER_KILONEWTON, NEWTONS_PER_KILONEWTON)
    @@ "KILONEWTON" :> KIPS_PER_KILONEWTON

Force_FROM_KIP ==
    "POUND" :> POUNDS_PER_KIP
    @@ "KIP" :> One
    @@ "NEWTON" :> NDiv(NEWTONS_PER_KILONEWTON, KIPS_PER_KILONEWTON)
    @@ "KILONEWTON" :> NDiv(One, KIPS_PER_KILONEWTON)

ForcePerLength_TO_STD ==
    "POUND_PER_INCH" :> NDiv(One, POUNDS_PER_KIP)
    @@ "POUND_PER_FOOT" :> NDiv(NDiv(One, POUNDS_PER_KIP), INCHES_PER_FOOT)
    @@ "KIP_PER_INCH" :> One
    @@ "KIP_PER_FOOT" :> NDiv(One, INCHES_PER_FOOT)
    @@ "NEWTON_PER_METER" :>
         NDiv(NDiv(KIPS_PER_KILONEWTON, NEWTONS_PER_KILONEWTON), INCHES_PER_METER)
    @@ "KILONEWTON_PER_METER" :> NDiv(KIPS_PER_KILONEWTON, INCHES_PER_METER)
    @@ "NEWTON_PER_MILLIMETER" :>
         NMul(NDiv(NDiv(KIPS_PER_KILONEWTON, NEWTONS_PER_KILONEWTON), INCHES_PER_METER),
              MILLIMETERS_PER_METER)
    @@ "KILONEWTON_PER_MILLIMETER" :>
         NMul(NDiv(KIPS_PER_KILONEWTON, INCHES_PER_METER), MILLIMETERS_PER_METER)
    @@ "NEWTON_PER_CENTIMETER" :>
         NMul(NDiv(NDiv(KIPS_PER_KILONEWTON, NEWTONS_PER_KILONEWTON), INCHES_PER_METER),
              CENTIMETERS_PER_METER)
    @@ "KILONEWTON_PER_CENTIMETER" :>
         NMul(NDiv(KIPS_PER_KILONEWTON, INCHES_PER_METER), CENTIMETERS_PER_METER)

ForcePerLength_FROM_STD ==
    "POUND_PER_INCH" :> POUNDS_PER_KIP
    @@ "POUND_PER_FOOT" :> NMul(POUNDS_PER_KIP, INCHES_PER_FOOT)
    @@ "KIP_PER_INCH" :> One
    @@ "KIP_PER_FOOT" :> INCHES_PER_FOOT
    @@ "NEWTON_PER_METER" :>
         NMul(NDiv(NEWTONS_PER_KILONEWTON, KIPS_PER_KILONEWTON), INCHES_PER_METER)
    @@ "KILONEWTON_PER_METER" :>
         NMul(NDiv(One, KIPS_PER_KILONEWTON), INCHES_PER_METER)
    @@ "NEWTON_PER_MILLIMETER" :>
         NDiv(NMul(NDiv(NEWTONS_PER_KILONEWTON, KIPS_PER_KILONEWTON), INCHES_PER_METER),
              MILLIMETERS_PER_METER)
    @@ "KILONEWTON_PER_MILLIMETER" :>
         NDiv(NMul(NDiv(One, KIPS_PER_KILONEWTON), INCHES_PER_METER),
              MILLIMETERS_PER_METER)
    @@ "NEWTON_PER_CENTIMETER" :>
         NDiv(NMul(NDiv(NEWTONS_PER_KILONEWTON, KIPS_PER_KILONEWTON), INCHES_PER_METER),
              CENTIMETERS_PER_METER)
    @@ "KILONEWTON_PER_CENTIMETER" :>
         NDiv(NMul(NDiv(One, KIPS_PER_KILONEWTON), INCHES_PER_METER),
              CENTIMETERS_PER_METER)

Stress_TO_STD ==
    "PSI" :> NDiv(One, POUNDS_PER_KIP)
    @@ "KSI" :> One
    @@ "PSF" :> NDiv(NDiv(One, POUNDS_PER_KIP), NMul(INCHES_PER_FOOT, INCHES_PER_FOOT))
    @@ "KSF" :> NDiv(One, NMul(INCHES_PER_FOOT, INCHES_PER_FOOT))
    @@ "KPA" :>
         NMul(NDiv(One, NMul(INCHES_PER_METER, INCHES_PER_METER)), KIPS_PER_KILONEWTON)
    @@ "MPA" :>
         NMul(NMul(NDiv(One, NMul(INCHES_PER_METER, INCHES_PER_METER)),
                   KIPS_PER_KILONEWTON), KILONEWTON_PER_MEGANEWTON)
    @@ "PA" :>
         NMul(NMul(NDiv(One, NMul(INCHES_PER_METER, INCHES_PER_METER)),
                   KIPS_PER_KILONEWTON), NEWTONS_PER_KILONEWTON)

Stress_FROM_STD ==
    "PSI" :> POUNDS_PER_KIP
    @@ "KSI" :> One
    @@ "PSF" :> NMul(POUNDS_PER_KIP, NMul(INCHES_PER_FOOT, INCHES_PER_FOOT))
    @@ "KSF" :> NMul(INCHES_PER_FOOT, INCHES_PER_FOOT)
    @@ "KPA" :> NDiv(NMul(INCHES_PER_METER, INCHES_PER_METER), KIPS_PER_KILONEWTON)
    @@ "MPA" :>
         NDiv(NMul(INCHES_PER_METER, INCHES_PER_METER),
              NMul(KIPS_PER_KILONEWTON, KILONEWTON_PER_MEGANEWTON))
    @@ "PA" :>
         NMul(NDiv(NMul(INCHES_PER_METER, INCHES_PER_METER), KIPS_PER_KILONEWTON),
              NEWTONS_PER_KILONEWTON)

\* cls._TO_STD (Force._TO_KIP)
TO_STD(cls) ==
    CASE cls = "Force" -> Force_TO_KIP
      [] cls = "ForcePerLength" -> ForcePerLength_TO_STD
      [] cls = "Stress" -> Stress_TO_STD
      [] OTHER -> Derived_TO_STD(cls)

\* cls._FROM_STD (Force._FROM_KIP)
FROM_STD(cls) ==
    CASE cls = "Force" -> Force_FROM_KIP
      [] cls = "ForcePerLength" -> ForcePerLength_FROM_STD
      [] cls = "Stress" -> Stress_FROM_STD
      [] OTHER -> Derived_FROM_STD(cls)

\* cls.normalize_value(value, unit): float(value) * cls._TO_STD[unit]
normalize_value(cls, value, unit) == NMul(value, TO_STD(cls)[unit])

\* Result.__init__: the four attributes, and the concrete class of the object
Result(cls, flt, value, display_unit, input_unit) ==
    [cls |-> cls, flt |-> flt, value |-> value,
     display_unit |-> display_unit, input_unit |-> input_unit]

\* cls(value, unit) for the eight unit-bearing classes
New(cls, value, unit) ==
    Result(cls, ClassFLT(cls), normalize_value(cls, value, unit), unit, unit)

Unitless(value) == Result("Unitless", UNITLESS, value, UNITLESS_UNIT, UNITLESS_UNIT)

Undefined(flt, value) == Result("Undefined", flt, value, UNDEFINED_UNIT, UNDEFINED_UNIT)

\* cls.create_with_standard_units(value)
create_with_standard_units(cls, value) ==
    CASE cls = "Unitless" -> Unitless(value)
      [] cls = "Undefined" -> Undefined(UNITLESS, value)
      [] OTHER -> New(cls, value, default_unit(cls))

\* the _EQ_TOL each class returns from equality_tolerance
equality_tolerance(self) ==
    CASE self.cls \in {"Length", "Area", "LengthCubed", "LengthToThe4th"} -> Sci(1, 3)
      [] self.cls \in {"Force", "ForcePerLength", "Stress"} -> Sci(1, 4)
      [] self.cls = "Moment" -> Sci(1, 2)
      [] self.cls \in {"Unitless", "Undefined"} -> Sci(1, 10)

----------------------------------------------------------------------------
(* Outcome of one operator call: a Result object, a bool, a float, or the  *)
(* exception that the call raised.                                         *)

NoQ == Result("none", UNITLESS, Zero, "none", "none")

NoRes ==
    [kind |-> "none", q |-> NoQ, err |-> "none", bool |-> FALSE, num |-> Zero,
     unit |-> "none", flt |-> UNITLESS, ref |-> "none", index |-> 0]

\* a newly constructed quantity is returned
Ok(q) == [NoRes EXCEPT !.kind = "qty", !.q = q, !.ref = "new"]

\* the operand object itself (named by the variable that holds it) is returned
Same(name, q) == [NoRes EXCEPT !.kind = "qty", !.q = q, !.ref = name]

\* the element at position i of the collection argument is returned
Item(i, q) == [NoRes EXCEPT !.kind = "qty", !.q = q, !.ref = "xs", !.index = i]

Raise(e) == [NoRes EXCEPT !.kind = "err", !.err = e]

Bool(v) == [NoRes EXCEPT !.kind = "bool", !.bool = v]

Number(x) == [NoRes EXCEPT !.kind = "num", !.num = x]

UnitRes(x) == [NoRes EXCEPT !.kind = "unit", !.unit = x]

FltRes(x) == [NoRes EXCEPT !.kind = "flt", !.flt = x]

\* get_type returns the UnitType member named x, or the attribute lookup
\* UnitType.x raises
TypeRes(x) ==
    IF x = "AttributeError" THEN Raise("AttributeError")
    ELSE [NoRes EXCEPT !.kind = "type", !.unit = x]

----------------------------------------------------------------------------
(* structunits/result.py: class Result                                     *)

\* the class whose create_with_standard_units a branch of
\* _build_typed_result calls; "Undefined" for the fall-through
TypedClass(unit_type) ==
    IF unit_type = "LENGTH" THEN "Length"
    ELSE IF unit_type = "FORCE" THEN "Force"
    ELSE IF unit_type = "MOMENT" THEN "Moment"
    ELSE IF unit_type = "FORCE_PER_LENGTH" THEN "ForcePerLength"
    ELSE IF unit_type = "STRESS" THEN "Stress"
    ELSE IF unit_type = "LENGTH_TO_THE_4TH" THEN "LengthToThe4th"
    ELSE IF unit_type = "LENGTH_CUBED" THEN "LengthCubed"
    ELSE IF unit_type = "UNITLESS" THEN "Unitless"
    ELSE "Undefined"

_build_typed_result(flt, value) ==
    LET unit_type == get_type(flt)
        cls == TypedClass(unit_type)
    IN  IF unit_type = "AttributeError" THEN Raise("AttributeError")
        ELSE IF cls = "Undefined" THEN Ok(Undefined(flt, value))
        ELSE IF cls = "Unitless" THEN Ok(Unitless(value))
        ELSE Ok(create_with_standard_units(cls, value))

\* a check that looks at the force degree only
_confirm_units_match_force_only(x, y) == x.flt.force_degree = y.flt.force_degree

\* TRUE when the check passes, FALSE when it raises ValueError
_confirm_units_match(x, y) == FLT__eq__(x.flt, y.flt)

\* a check that looks at the length degree only
_confirm_unitless_length_only(x) == x.flt.length_degree = 0

_confirm_unitless(x) == FLT__eq__(x.flt, UNITLESS)

\* an equality whose tolerance bound is exclusive
Result__eq__strict(self, other) ==
    IF FLT__eq__(self.flt, other.flt)
    THEN NLt(NAbs(NSub(self.value, other.value)), equality_tolerance(self))
    ELSE FALSE

\* __eq__ with a Result operand (self is other also yields True: the
\* difference of a magnitude with itself is 0)
Result__eq__(self, other) ==
    IF FLT__eq__(self.flt, other.flt)
    THEN NLe(NAbs(NSub(self.value, other.value)), equality_tolerance(self))
    ELSE FALSE

Result__ne__(self, other) == ~Result__eq__(self, other)

\* __eq__ and __ne__ with None or an operand that is not a Result
Result__eq__other(self) == FALSE

Result__ne__other(self) == ~Result__eq__other(self)

Result__lt__(self, other) ==
    IF ~_confirm_units_match(self, other) THEN Raise("ValueError")
    ELSE Bool(NLt(self.value, other.value))

Result__le__(self, other) ==
    IF ~_confirm_units_match(self, other) THEN Raise("ValueError")
    ELSE Bool(NLe(self.value, other.value))

Result__gt__(self, other) ==
    IF ~_confirm_units_match(self, other) THEN Raise("ValueError")
    ELSE Bool(NLt(other.value, self.value))

Result__ge__(self, other) ==
    IF ~_confirm_units_match(self, other) THEN Raise("ValueError")
    ELSE Bool(NLe(other.value, self.value))

\* a sum constructed in the display unit of the left operand
Result__add__in_display_unit(self, other) ==
    IF ~_confirm_units_match(self, other) THEN Raise("ValueError")
    ELSE Ok([self EXCEPT !.value = NAdd(self.value, other.value)])

\* the isinstance(other, Result) branches of the arithmetic operators
Result__add__(self, other) ==
    IF ~_confirm_units_match(self, other) THEN Raise("ValueError")
    ELSE _build_typed_result(self.flt, NAdd(self.value, other.value))

Result__sub__(self, other) ==
    IF ~_confirm_units_match(self, other) THEN Raise("ValueError")
    ELSE _build_typed_result(self.flt, NSub(self.value, other.value))

\* a product that keeps the left operand's dimension
Result__mul__left_flt(self, other) ==
    _build_typed_result(self.flt, NMul(self.value, other.value))

Result__mul__(self, other) ==
    _build_typed_result(FLT__add__(self.flt, other.flt), NMul(self.value, other.value))

Result__truediv__(self, other) ==
    IF other.value.n = 0 THEN Raise("ZeroDivisionError")
    ELSE _build_typed_result(FLT__sub__(self.flt, other.flt),
                             NDiv(self.value, other.value))

Result__neg__(self) == _build_typed_result(self.flt, NNeg(self.value))

\* the isinstance(other, (int, float)) branches
Result__add__num(self, other) ==
    IF ~_confirm_unitless(self) THEN Raise("ValueError")
    ELSE Ok(create_with_standard_units(self.cls, NAdd(self.value, other)))

Result__radd__(self, other) ==
    IF ~_confirm_unitless(self) THEN Raise("ValueError")
    ELSE Ok(create_with_standard_units(self.cls, NAdd(other, self.value)))

Result__sub__num(self, other) ==
    IF ~_confirm_unitless(self) THEN Raise("ValueError")
    ELSE Ok(create_with_standard_units(self.cls, NSub(self.value, other)))

Result__rsub__(self, other) ==
    IF ~_confirm_unitless(self) THEN Raise("ValueError")
    ELSE Ok(create_with_standard_units(self.cls, NSub(other, self.value)))

Result__mul__num(self, other) ==
    Ok(create_with_standard_units(self.cls, NMul(self.value, other)))

Result__rmul__(self, other) ==
    Ok(create_with_standard_units(self.cls, NMul(other, self.value)))

Result__truediv__num(self, other) ==
    IF other.n = 0 THEN Raise("ZeroDivisionError")
    ELSE Ok(create_with_standard_units(self.cls, NDiv(self.value, other)))

Result__rtruediv__(self, other) ==
    IF self.value.n = 0 THEN Raise("ZeroDivisionError")
    ELSE _build_typed_result(FLT__neg__(self.flt), NDiv(other, self.value))

\* structunits/specific_units/undefined.py: the scalar overrides
\* a scalar product built by Undefined.create_with_standard_units
Undefined__mul__via_standard(self, other) ==
    Ok(create_with_standard_units(self.cls, NMul(self.value, other)))

Undefined__mul__(self, other) == Ok(Undefined(self.flt, NMul(self.value, other)))

Undefined__rmul__(self, other) == Ok(Undefined(self.flt, NMul(other, self.value)))

Undefined__truediv__(self, other) ==
    IF other.n = 0 THEN Raise("ZeroDivisionError")
    ELSE Ok(Undefined(self.flt, NDiv(self.value, other)))

\* q * x, x * q and q / x for a bare number x, as Python dispatches them on
\* the class of q
Times(q, x) ==
    IF q.cls = "Undefined" THEN Undefined__mul__(q, x) ELSE Result__mul__num(q, x)

RTimes(x, q) ==
    IF q.cls = "Undefined" THEN Undefined__rmul__(q, x) ELSE Result__rmul__(q, x)

Over(q, x) ==
    IF q.cls = "Undefined" THEN Undefined__truediv__(q, x)
    ELSE Result__truediv__num(q, x)

----------------------------------------------------------------------------
(* Result.__pow__                                                          *)

\* float.is_integer()
is_integer(x) ==
    x.d = 1 /\ x.p2 >= 0 /\ x.p3 >= 0 /\ x.p5 >= 0 /\ x.pM = 0 /\ x.pK = 0

\* int(round(x)) for an integer-valued x
ToInt(x) == x.n * IPow(2, x.p2) * IPow(3, x.p3) * IPow(5, x.p5)

IsSquareInt(i) == \E r \in 0..i : r * r = i

ISqrt(i) == CHOOSE r \in 0..i : r * r = i

Even(i) == i % 2 = 0

\* x > 0 has a square root among the represented numbers
HasSqrt(x) ==
    /\ x.n > 0
    /\ IsSquareInt(x.n) /\ IsSquareInt(x.d)
    /\ Even(x.p2) /\ Even(x.p3) /\ Even(x.p5) /\ Even(x.pM) /\ Even(x.pK)

NSqrt(x) ==
    [n |-> ISqrt(x.n), d |-> ISqrt(x.d), p2 |-> x.p2 \div 2, p3 |-> x.p3 \div 2,
     p5 |-> x.p5 \div 2, pM |-> x.pM \div 2, pK |-> x.pK \div 2]

\* x > 0 has a k-th root among the represented numbers
IsPowerInt(i, k) == \E r \in 0..i : IPow(r, k) = i

HasRoot(x, k) ==
    /\ x.n > 0
    /\ IsPowerInt(x.n, k) /\ IsPowerInt(x.d, k)
    /\ x.p2 % k = 0 /\ x.p3 % k = 0 /\ x.p5 % k = 0 /\ x.pM % k = 0 /\ x.pK % k = 0

NRoot(x, k) ==
    [n |-> CHOOSE r \in 0..x.n : IPow(r, k) = x.n,
     d |-> CHOOSE r \in 0..x.d : IPow(r, k) = x.d,
     p2 |-> x.p2 \div k, p3 |-> x.p3 \div k, p5 |-> x.p5 \div k,
     pM |-> x.pM \div k, pK |-> x.pK \div k]

\* the exponents e for which the float power x ** e is modelled: the
\* integers, and the odd multiples of 1/2 on a base that is 0, negative or
\* has a represented square root
IsHalfInteger(e) == ~is_integer(e) /\ is_integer(NMul(e, FromInt(2)))

PowModelled(x, e) ==
    \/ is_integer(e)
    \/ IsHalfInteger(e) /\ (x.n <= 0 \/ HasSqrt(x))

\* x ** e as Python computes it on floats: [exc |-> name] for the raising and
\* complex-valued cases, [exc |-> "none", v |-> power] otherwise
FloatPow(x, e) ==
    IF is_integer(e)
    THEN LET k == ToInt(e)
         IN  IF k >= 0 THEN [exc |-> "none", v |-> NPow(x, k)]
             ELSE IF x.n = 0 THEN [exc |-> "ZeroDivisionError", v |-> Zero]
             ELSE [exc |-> "none", v |-> NInv(NPow(x, -k))]
    ELSE LET k == ToInt(NMul(e, FromInt(2)))
         IN  IF x.n = 0
             THEN IF k > 0 THEN [exc |-> "none", v |-> Zero]
                  ELSE [exc |-> "ZeroDivisionError", v |-> Zero]
             ELSE IF x.n < 0 THEN [exc |-> "complex", v |-> Zero]
             ELSE IF k > 0 THEN [exc |-> "none", v |-> NPow(NSqrt(x), k)]
             ELSE [exc |-> "none", v |-> NInv(NPow(NSqrt(x), -k))]

\* __pow__ with a bare number as exponent
Result__pow__(self, exponent_value) ==
    LET pw == FloatPow(self.value, exponent_value)
    IN  IF pw.exc = "ZeroDivisionError" THEN Raise("ZeroDivisionError")
        ELSE IF is_integer(exponent_value)
        THEN _build_typed_result(FLT__mul__(self.flt, ToInt(exponent_value)), pw.v)
        ELSE IF pw.exc = "complex" THEN Raise("TypeError")
        ELSE _build_typed_result(UNITLESS, pw.v)

\* __pow__ with a Result as exponent
Result__pow__q(self, exponent) ==
    IF ~_confirm_unitless(exponent) THEN Raise("ValueError")
    ELSE Result__pow__(self, exponent.value)

----------------------------------------------------------------------------
(* Math helpers of Result: sqrt, abs, min, max.                            *)

\* the magnitudes whose math.sqrt is modelled: 0, the negative ones (which
\* raise) and those with a represented square root
SqrtModelled(x) == x.n <= 0 \/ HasSqrt(x)

\* a square root that keeps the operand's FLT
Result_sqrt_keep_flt(x) ==
    IF x.value.n < 0 THEN Raise("ValueError")
    ELSE _build_typed_result(x.flt, IF x.value.n = 0 THEN Zero ELSE NSqrt(x.value))

\* Result.sqrt: math.sqrt raises ValueError on a negative magnitude
Result_sqrt(x) ==
    IF x.value.n < 0 THEN Raise("ValueError")
    ELSE _build_typed_result(FLT__truediv__(x.flt, 2),
                             IF x.value.n = 0 THEN Zero ELSE NSqrt(x.value))

\* the magnitudes whose power x ** (1 / k) is modelled
RootModelled(x, k) == x.n <= 0 \/ HasRoot(x, k)

\* _build_typed_result(a.flt / k, a.value ** (1 / k)) for k = 3, 4: the power
\* of a negative magnitude is complex, which get_type does not look at and
\* float() in Result.__init__ rejects with TypeError
Result_root(x, k) ==
    LET flt == FLT__truediv__(x.flt, k)
    IN  IF x.value.n < 0
        THEN IF get_type(flt) = "AttributeError" THEN Raise("AttributeError")
             ELSE Raise("TypeError")
        ELSE _build_typed_result(flt, IF x.value.n = 0 THEN Zero ELSE NRoot(x.value, k))

Result_third_root(x) == Result_root(x, 3)

Result_fourth_root(x) == Result_root(x, 4)

Result_abs(x) == _build_typed_result(x.flt, NAbs(x.value))

\* a minimum that always returns its first operand
Result_min_first(x, y) ==
    IF ~_confirm_units_match(x, y) THEN Raise("ValueError") ELSE Same("a", x)

\* Result.min(a, b) and Result.max(a, b): the operands are the objects held
\* in a and b
Result_min(x, y) ==
    IF ~_confirm_units_match(x, y) THEN Raise("ValueError")
    ELSE IF NLt(x.value, y.value) THEN Same("a", x) ELSE Same("b", y)

Result_max(x, y) ==
    IF ~_confirm_units_match(x, y) THEN Raise("ValueError")
    ELSE IF NLt(y.value, x.value) THEN Same("a", x) ELSE Same("b", y)

\* the loops over all_results[1:], m being the position of the kept element
RECURSIVE MinLoop(_, _, _)
MinLoop(all_results, m, i) ==
    IF i > Len(all_results) THEN m
    ELSE MinLoop(all_results,
                 IF NLt(all_results[i].value, all_results[m].value) THEN i ELSE m,
                 i + 1)

RECURSIVE MaxLoop(_, _, _)
MaxLoop(all_results, m, i) ==
    IF i > Len(all_results) THEN m
    ELSE MaxLoop(all_results,
                 IF NLt(all_results[m].value, all_results[i].value) THEN i ELSE m,
                 i + 1)

\* every element after the first passes _confirm_units_match with the first
UnitsMatchFirst(all_results) ==
    \A i \in 2..Len(all_results) : _confirm_units_match(all_results[1], all_results[i])

\* a minimum over a collection that skips the units check
Result_min_list_unchecked(all_results) ==
    IF all_results = <<>> THEN Raise("ValueError")
    ELSE LET m == MinLoop(all_results, 1, 2) IN Item(m, all_results[m])

\* Result.min(collection) and Result.max(collection)
Result_min_list(all_results) ==
    IF all_results = <<>> THEN Raise("ValueError")
    ELSE IF ~UnitsMatchFirst(all_results) THEN Raise("ValueError")
    ELSE LET m == MinLoop(all_results, 1, 2) IN Item(m, all_results[m])

Result_max_list(all_results) ==
    IF all_results = <<>> THEN Raise("ValueError")
    ELSE IF ~UnitsMatchFirst(all_results) THEN Raise("ValueError")
    ELSE LET m == MaxLoop(all_results, 1, 2) IN Item(m, all_results[m])

\* an envelope that returns the absolute value of the governing operand
Result_absolute_value_signed_envelope_unsigned(x, y) ==
    IF ~_confirm_units_match(x, y) THEN Raise("ValueError")
    ELSE LET abs_a == Result_abs(x)
             abs_b == Result_abs(y)
         IN  IF abs_a.kind = "err" THEN abs_a
             ELSE IF abs_b.kind = "err" THEN abs_b
             ELSE IF NLt(abs_b.q.value, abs_a.q.value) THEN abs_a ELSE abs_b

\* Result.absolute_value_signed_envelope: abs_a * (1 if a.value >= 0 else -1)
\* when abs_a.value > abs_b.value, else the same with b
Result_absolute_value_signed_envelope(x, y) ==
    IF ~_confirm_units_match(x, y) THEN Raise("ValueError")
    ELSE LET abs_a == Result_abs(x)
             abs_b == Result_abs(y)
         IN  IF abs_a.kind = "err" THEN abs_a
             ELSE IF abs_b.kind = "err" THEN abs_b
             ELSE LET first == NLt(abs_b.q.value, abs_a.q.value)
                      governing == IF first THEN x ELSE y
                      sign == IF governing.value.n >= 0 THEN One ELSE NNeg(One)
                  IN  Times(IF first THEN abs_a.q ELSE abs_b.q, sign)

----------------------------------------------------------------------------
(* Conversion API of the concrete classes.                                 *)

\* cls.to_value(target_unit): self.value * self._FROM_STD[target_unit]; a
\* unit that is not a key of the table raises ValueError
to_value(self, target_unit) ==
    IF target_unit \in DOMAIN FROM_STD(self.cls)
    THEN Number(NMul(self.value, FROM_STD(self.cls)[target_unit]))
    ELSE Raise("ValueError")

\* a conversion in which Unitless and Undefined accept either sentinel
convert_to_any_sentinel(self, target_unit) ==
    IF self.cls \in {"Unitless", "Undefined"}
    THEN IF target_unit \in {UNITLESS_UNIT, UNDEFINED_UNIT}
         THEN Number(self.value) ELSE Raise("ValueError")
    ELSE IF target_unit \notin UnitsOf(self.cls) THEN Raise("ValueError")
    ELSE to_value(self, target_unit)

\* convert_to(target_unit): the isinstance guard of the unit-bearing classes,
\* the identity test against the sentinel of Unitless and Undefined
convert_to(self, target_unit) ==
    IF self.cls = "Unitless"
    THEN IF target_unit = UNITLESS_UNIT THEN Number(self.value) ELSE Raise("ValueError")
    ELSE IF self.cls = "Undefined"
    THEN IF target_unit = UNDEFINED_UNIT THEN Number(self.value) ELSE Raise("ValueError")
    ELSE IF target_unit \notin UnitsOf(self.cls) THEN Raise("ValueError")
    ELSE to_value(self, target_unit)

\* Result.input_unit_value
input_unit_value(self) == convert_to(self, self.input_unit)

----------------------------------------------------------------------------
(* Compound units: the tables of length_unit.py, force_unit.py and         *)
(* moment_unit.py, keyed by the pair of operand units.                     *)

length_to_area_map ==
    "INCH" :> "SQUARE_INCH" @@ "FOOT" :> "SQUARE_FOOT"
    @@ "MILLIMETER" :> "SQUARE_MILLIMETER" @@ "CENTIMETER" :> "SQUARE_CENTIMETER"
    @@ "METER" :> "SQUARE_METER"

_DIVISION_COMBINATIONS ==
    <<"POUND", "INCH">> :> "POUND_PER_INCH"
    @@ <<"POUND", "FOOT">> :> "POUND_PER_FOOT"
    @@ <<"KIP", "INCH">> :> "KIP_PER_INCH"
    @@ <<"KIP", "FOOT">> :> "KIP_PER_FOOT"
    @@ <<"NEWTON", "METER">> :> "NEWTON_PER_METER"
    @@ <<"KILONEWTON", "METER">> :> "KILONEWTON_PER_METER"
    @@ <<"NEWTON", "MILLIMETER">> :> "NEWTON_PER_MILLIMETER"
    @@ <<"KILONEWTON", "MILLIMETER">> :> "KILONEWTON_PER_MILLIMETER"
    @@ <<"NEWTON", "CENTIMETER">> :> "NEWTON_PER_CENTIMETER"
    @@ <<"KILONEWTON", "CENTIMETER">> :> "KILONEWTON_PER_CENTIMETER"

_MULTIPLICATION_COMBINATIONS ==
    <<"POUND", "INCH">> :> "POUND_INCH"
    @@ <<"POUND", "FOOT">> :> "POUND_FOOT"
    @@ <<"KIP", "INCH">> :> "KIP_INCH"
    @@ <<"KIP", "FOOT">> :> "KIP_FOOT"
    @@ <<"NEWTON", "METER">> :> "NEWTON_METER"
    @@ <<"KILONEWTON", "METER">> :> "KILONEWTON_METER"
    @@ <<"NEWTON", "MILLIMETER">> :> "NEWTON_MILLIMETER"
    @@ <<"KILONEWTON", "MILLIMETER">> :> "KILONEWTON_MILLIMETER"
    @@ <<"NEWTON", "CENTIMETER">> :> "NEWTON_CENTIMETER"
    @@ <<"KILONEWTON", "CENTIMETER">> :> "KILONEWTON_CENTIMETER"

_MOMENT_FORCE_COMBINATIONS ==
    <<"POUND_INCH", "POUND">> :> "INCH"
    @@ <<"POUND_FOOT", "POUND">> :> "FOOT"
    @@ <<"KIP_INCH", "KIP">> :> "INCH"
    @@ <<"KIP_FOOT", "KIP">> :> "FOOT"
    @@ <<"NEWTON_METER", "NEWTON">> :> "METER"
    @@ <<"KILONEWTON_METER", "KILONEWTON">> :> "METER"
    @@ <<"NEWTON_MILLIMETER", "NEWTON">> :> "MILLIMETER"
    @@ <<"KILONEWTON_MILLIMETER", "KILONEWTON">> :> "MILLIMETER"
    @@ <<"NEWTON_CENTIMETER", "NEWTON">> :> "CENTIMETER"
    @@ <<"KILONEWTON_CENTIMETER", "KILONEWTON">> :> "CENTIMETER"

_MOMENT_LENGTH_COMBINATIONS ==
    <<"POUND_INCH", "INCH">> :> "POUND"
    @@ <<"POUND_FOOT", "FOOT">> :> "POUND"
    @@ <<"KIP_INCH", "INCH">> :> "KIP"
    @@ <<"KIP_FOOT", "FOOT">> :> "KIP"
    @@ <<"NEWTON_METER", "METER">> :> "NEWTON"
    @@ <<"KILONEWTON_METER", "METER">> :> "KILONEWTON"
    @@ <<"NEWTON_MILLIMETER", "MILLIMETER">> :> "NEWTON"
    @@ <<"KILONEWTON_MILLIMETER", "MILLIMETER">> :> "KILONEWTON"
    @@ <<"NEWTON_CENTIMETER", "CENTIMETER">> :> "NEWTON"
    @@ <<"KILONEWTON_CENTIMETER", "CENTIMETER">> :> "KILONEWTON"

\* table[combination] if combination in table, else the TypeError raised
Lookup(table, combination) ==
    IF combination \in DOMAIN table THEN UnitRes(table[combination])
    ELSE Raise("TypeError")

\* a lookup that finds an entry for the first operand alone
LengthUnit_multiply_by_any(self, other) == Lookup(length_to_area_map, self)

LengthUnit_multiply_by_length_unit(self, other) ==
    IF self = other THEN Lookup(length_to_area_map, self) ELSE Raise("TypeError")

ForceUnit_multiply_by_length_unit(self, length_unit) ==
    Lookup(_MULTIPLICATION_COMBINATIONS, <<self, length_unit>>)

\* a division that finds the length unit of the moment unit for any force unit
MomentUnit_divide_by_any_force_unit(self, force_unit) ==
    LET listed == {c \in DOMAIN _MOMENT_FORCE_COMBINATIONS : c[1] = self}
    IN  IF listed = {} THEN Raise("TypeError")
        ELSE UnitRes(_MOMENT_FORCE_COMBINATIONS[CHOOSE c \in listed : TRUE])

MomentUnit_divide_by_force_unit(self, force_unit) ==
    Lookup(_MOMENT_FORCE_COMBINATIONS, <<self, force_unit>>)

MomentUnit_divide_by_length_unit(self, length_unit) ==
    Lookup(_MOMENT_LENGTH_COMBINATIONS, <<self, length_unit>>)

\* ForceUnit / unit
ForceUnit__truediv__(self, other) ==
    IF other \notin Range(LengthUnit) THEN Raise("TypeError")
    ELSE Lookup(_DIVISION_COMBINATIONS, <<self, other>>)

\* MomentUnit / unit
MomentUnit__truediv__(self, other) ==
    IF other \in Range(ForceUnit) THEN MomentUnit_divide_by_force_unit(self, other)
    ELSE IF other \in Range(LengthUnit) THEN MomentUnit_divide_by_length_unit(self, other)
    ELSE Raise("TypeError")

\* x * y for two unit members: LengthUnit.__mul__ and ForceUnit.__mul__ take
\* a LengthUnit; every other __mul__ / __rmul__ returns NotImplemented for a
\* unit operand, which Python turns into TypeError
UnitTimes(x, y) ==
    IF x \in Range(LengthUnit) /\ y \in Range(LengthUnit)
    THEN LengthUnit_multiply_by_length_unit(x, y)
    ELSE IF x \in Range(ForceUnit) /\ y \in Range(LengthUnit)
    THEN ForceUnit_multiply_by_length_unit(x, y)
    ELSE Raise("TypeError")

\* x / y for two unit members: only ForceUnit and MomentUnit define
\* __truediv__, and LengthUnit.__rtruediv__ returns NotImplemented for a unit
UnitOver(x, y) ==
    IF x \in Range(ForceUnit) THEN ForceUnit__truediv__(x, y)
    ELSE IF x \in Range(MomentUnit) THEN MomentUnit__truediv__(x, y)
    ELSE Raise("TypeError")

----------------------------------------------------------------------------
(* Quantity by Unit: the __truediv__ overrides of the concrete classes and *)
(* LengthUnit.__rmul__.                                                    *)

\* Length.__truediv__ for a unit operand; Area, LengthCubed and
\* LengthToThe4th repeat it with their own unit enum.  Any other unit falls
\* through to Result.__truediv__, which returns NotImplemented.
Length__truediv__(self, other) ==
    IF other \in UnitsOf(self.cls)
    THEN Ok(Unitless(to_value(self, other).num))
    ELSE Raise("TypeError")

\* the display unit when it is a member of the class's enum, else the default
display_or_default(self) ==
    IF self.display_unit \in UnitsOf(self.cls) THEN self.display_unit
    ELSE default_unit(self.cls)

\* the quantity cls(self.to_value(unit), compound.unit), or the TypeError of
\* the compound-unit lookup
Compound(self, unit, compound, cls) ==
    IF compound.kind = "err" THEN compound
    ELSE Ok(New(cls, to_value(self, unit).num, compound.unit))

\* a Force / LengthUnit that keeps the force unit's value but builds the
\* result in the display force unit's per-inch unit
Force__truediv__per_inch(self, other) ==
    IF other \in Range(LengthUnit)
    THEN LET fu == display_or_default(self)
         IN  Compound(self, fu, ForceUnit__truediv__(fu, "INCH"), "ForcePerLength")
    ELSE Raise("TypeError")

Force__truediv__(self, other) ==
    IF other \in Range(LengthUnit)
    THEN LET fu == display_or_default(self)
         IN  Compound(self, fu, ForceUnit__truediv__(fu, other), "ForcePerLength")
    ELSE Raise("TypeError")

Moment__truediv__(self, other) ==
    LET moment_unit == display_or_default(self)
    IN  IF other \in Range(LengthUnit)
        THEN Compound(self, moment_unit, MomentUnit__truediv__(moment_unit, other), "Force")
        ELSE IF other \in Range(ForceUnit)
        THEN Compound(self, moment_unit, MomentUnit__truediv__(moment_unit, other), "Length")
        ELSE Raise("TypeError")

\* other * self for a LengthUnit self and a quantity other
LengthUnit__rmul__(self, other) ==
    IF other.cls = "Force"
    THEN LET force_unit == display_or_default(other)
         IN  Compound(other, force_unit,
                      ForceUnit_multiply_by_length_unit(force_unit, self), "Moment")
    ELSE Raise("TypeError")

\* q / U as Python dispatches it on the class of q; the classes without an
\* override inherit Result.__truediv__ (NotImplemented for a unit), and no
\* unit's __rtruediv__ accepts what reaches it
OverUnit(q, U) ==
    IF q.cls \in {"Length", "Area", "LengthCubed", "LengthToThe4th"}
    THEN Length__truediv__(q, U)
    ELSE IF q.cls = "Force" THEN Force__truediv__(q, U)
    ELSE IF q.cls = "Moment" THEN Moment__truediv__(q, U)
    ELSE Raise("TypeError")

\* q * U: Result.__mul__ returns NotImplemented for a unit, so Python tries
\* U.__rmul__(q), which only LengthUnit defines for a quantity
TimesUnit(q, U) ==
    IF U \in Range(LengthUnit) THEN LengthUnit__rmul__(U, q) ELSE Raise("TypeError")

----------------------------------------------------------------------------
(* Symbol lookup: from_symbol of the unit enums.  A string is the sequence *)
(* of its characters; sup2, sup3 and sup4 stand for the superscript        *)
(* digits.                                                                 *)

\* the symbol each member is declared with
symbol ==
    "INCH" :> <<"i", "n">>
    @@ "FOOT" :> <<"f", "t">>
    @@ "MILLIMETER" :> <<"m", "m">>
    @@ "CENTIMETER" :> <<"c", "m">>
    @@ "METER" :> <<"m">>
    @@ "SQUARE_INCH" :> <<"i", "n", "sup2">>
    @@ "SQUARE_FOOT" :> <<"f", "t", "sup2">>
    @@ "SQUARE_MILLIMETER" :> <<"m", "m", "sup2">>
    @@ "SQUARE_CENTIMETER" :> <<"c", "m", "sup2">>
    @@ "SQUARE_METER" :> <<"m", "sup2">>
    @@ "INCHES_CUBED" :> <<"i", "n", "sup3">>
    @@ "FEET_CUBED" :> <<"f", "t", "sup3">>
    @@ "MILLIMETERS_CUBED" :> <<"m", "m", "sup3">>
    @@ "METERS_CUBED" :> <<"m", "sup3">>
    @@ "CENTIMETERS_CUBED" :> <<"c", "m", "sup3">>
    @@ "INCHES_TO_THE_4TH" :> <<"i", "n", "sup4">>
    @@ "FEET_TO_THE_4TH" :> <<"f", "t", "sup4">>
    @@ "MILLIMETERS_TO_THE_4TH" :> <<"m", "m", "sup4">>
    @@ "METERS_TO_THE_4TH" :> <<"m", "sup4">>
    @@ "CENTIMETERS_TO_THE_4TH" :> <<"c", "m", "sup4">>
    @@ "POUND" :> <<"l", "b">>
    @@ "KIP" :> <<"k", "i", "p">>
    @@ "NEWTON" :> <<"N">>
    @@ "KILONEWTON" :> <<"k", "N">>
    @@ "POUND_INCH" :> <<"l", "b", "-", "i", "n">>
    @@ "POUND_FOOT" :> <<"l", "b", "-", "f", "t">>
    @@ "KIP_INCH" :> <<"k", "-", "i", "n">>
    @@ "KIP_FOOT" :> <<"k", "-", "f", "t">>
    @@ "NEWTON_METER" :> <<"N", "-", "m">>
    @@ "KILONEWTON_METER" :> <<"k", "N", "-", "m">>
    @@ "KILONEWTON_MILLIMETER" :> <<"k", "N", "-", "m", "m">>
    @@ "NEWTON_MILLIMETER" :> <<"N", "-", "m", "m">>
    @@ "KILONEWTON_CENTIMETER" :> <<"k", "N", "-", "c", "m">>
    @@ "NEWTON_CENTIMETER" :> <<"N", "-", "c", "m">>
    @@ "POUND_PER_INCH" :> <<"l", "b", "/", "i", "n">>
    @@ "POUND_PER_FOOT" :> <<"l", "b", "/", "f", "t">>
    @@ "KIP_PER_INCH" :> <<"k", "/", "i", "n">>
    @@ "KIP_PER_FOOT" :> <<"k", "/", "f", "t">>
    @@ "NEWTON_PER_METER" :> <<"N", "/", "m">>
    @@ "KILONEWTON_PER_METER" :> <<"k", "N", "/", "m">>
    @@ "NEWTON_PER_MILLIMETER" :> <<"N", "/", "m", "m">>
    @@ "KILONEWTON_PER_MILLIMETER" :> <<"k", "N", "/", "m", "m">>
    @@ "NEWTON_PER_CENTIMETER" :> <<"N", "/", "c", "m">>
    @@ "KILONEWTON_PER_CENTIMETER" :> <<"k", "N", "/", "c", "m">>
    @@ "PSI" :> <<"p", "s", "i">>
    @@ "KSI" :> <<"k", "s", "i">>
    @@ "PSF" :> <<"p", "s", "f">>
    @@ "KSF" :> <<"k", "s", "f">>
    @@ "KPA" :> <<"k", "P", "a">>
    @@ "MPA" :> <<"M", "P", "a">>
    @@ "PA" :> <<"P", "a">>

\* the members of a unit enum in declaration order
Enum(name) ==
    CASE name = "LengthUnit" -> LengthUnit
      [] name = "AreaUnit" -> AreaUnit
      [] name = "LengthCubedUnit" -> LengthCubedUnit
      [] name = "LengthToThe4thUnit" -> LengthToThe4thUnit
      [] name = "ForceUnit" -> ForceUnit
      [] name = "MomentUnit" -> MomentUnit
      [] name = "ForcePerLengthUnit" -> ForcePerLengthUnit
      [] name = "StressUnit" -> StressUnit

\* the characters str.strip() removes
Whitespace == {" ", "\t", "\n"}

\* the cased letters: upper case to lower case
LowerCase ==
    "A" :> "a" @@ "B" :> "b" @@ "C" :> "c" @@ "D" :> "d" @@ "E" :> "e" @@ "F" :> "f"
    @@ "G" :> "g" @@ "H" :> "h" @@ "I" :> "i" @@ "J" :> "j" @@ "K" :> "k"
    @@ "L" :> "l" @@ "M" :> "m" @@ "N" :> "n" @@ "O" :> "o" @@ "P" :> "p"
    @@ "Q" :> "q" @@ "R" :> "r" @@ "S" :> "s" @@ "T" :> "t" @@ "U" :> "u"
    @@ "V" :> "v" @@ "W" :> "w" @@ "X" :> "x" @@ "Y" :> "y" @@ "Z" :> "z"

\* str.lower()
str_lower(str) ==
    [i \in DOMAIN str |-> IF str[i] \in DOMAIN LowerCase THEN LowerCase[str[i]] ELSE str[i]]

RECURSIVE str_lstrip(_)
str_lstrip(str) ==
    IF str # <<>> /\ Head(str) \in Whitespace THEN str_lstrip(Tail(str)) ELSE str

RECURSIVE str_rstrip(_)
str_rstrip(str) ==
    IF str # <<>> /\ str[Len(str)] \in Whitespace
    THEN str_rstrip(SubSeq(str, 1, Len(str) - 1))
    ELSE str

\* str.strip()
str_strip(str) == str_rstrip(str_lstrip(str))

\* the loop "for unit in cls": the first member from position i on whose
\* lowered symbol is the normalized one
RECURSIVE FirstMatch(_, _, _)
FirstMatch(members, normalized_symbol, i) ==
    IF i > Len(members) THEN Raise("ValueError")
    ELSE IF str_lower(symbol[members[i]]) = normalized_symbol THEN UnitRes(members[i])
    ELSE FirstMatch(members, normalized_symbol, i + 1)

\* a lookup that compares the symbols as they are written
from_symbol_exact(cls, str) == FirstMatch(Enum(cls), str_strip(str), 1)

\* cls.from_symbol(symbol)
from_symbol(cls, str) == FirstMatch(Enum(cls), str_lower(str_strip(str)), 1)

----------------------------------------------------------------------------
(* Bounds and operand pools.                                               *)

\* raw values handed to constructors and used as bare numbers: -1 .. MaxVal
MaxVal == 3

\* largest FLT degree (in absolute value) of a result that is used again as
\* an operand
MaxDeg == 2

Values == {FromInt(i) : i \in -1..MaxVal}

Half == NDiv(One, FromInt(2))

\* bare-number operands: the integers of Values and the non-integer 1/2
Scalars == Values \cup {Half}

\* the inch / foot / pound / kip units: their factors are rational, so every
\* sum and comparison of magnitudes built from them is decided exactly
ImperialUnits ==
    {"INCH", "FOOT", "SQUARE_INCH", "SQUARE_FOOT", "INCHES_CUBED", "FEET_CUBED",
     "INCHES_TO_THE_4TH", "FEET_TO_THE_4TH", "POUND", "KIP", "KIP_INCH", "KIP_FOOT",
     "KIP_PER_INCH", "KIP_PER_FOOT", "KSI", "PSI"}

\* operands of the arithmetic operators: every class, constructed in its
\* imperial units; Undefined constructed directly on a dimensionless and on
\* a named FLT
Pool ==
    {New(cls, v, unit) : <<cls, unit, v>> \in
        {x \in UnitClasses \X ImperialUnits \X Values : x[2] \in UnitsOf(x[1])}}
    \cup {Unitless(v) : v \in Values}
    \cup {Undefined(flt, v) : <<flt, v>> \in {UNITLESS, LENGTH} \X Values}

\* a result that may be bound to an operand again
InScope(q) ==
    /\ q.value \in Values
    /\ Abs(q.flt.force_degree) <= MaxDeg
    /\ Abs(q.flt.length_degree) <= MaxDeg
    /\ Abs(q.flt.time_degree) <= MaxDeg

----------------------------------------------------------------------------
(* The client: two operand objects a and b; one operator call at a time,   *)
(* whose outcome is kept in res; the outcome may be bound to a again.      *)

Init ==
    /\ a \in Pool
    /\ b \in Pool
    /\ s = Zero
    /\ u = "none"
    /\ w = "none"
    /\ xs = <<>>
    /\ op = "none"
    /\ res = NoRes
    /\ pc = "ready"

\* a call whose quantity outcome is stored into the left operand
CallInPlace(name, outcome) ==
    /\ pc = "ready"
    /\ op' = name
    /\ res' = outcome
    /\ pc' = "done"
    /\ a' = IF outcome.kind = "qty" THEN outcome.q ELSE a
    /\ UNCHANGED <<b, s, u, w, xs>>

\* one call on the two operands
Call(name, outcome) ==
    /\ pc = "ready"
    /\ op' = name
    /\ res' = outcome
    /\ pc' = "done"
    /\ UNCHANGED <<a, b, s, u, w, xs>>

\* one call on a and a bare number x
CallNum(name, x, outcome) ==
    /\ pc = "ready"
    /\ op' = name
    /\ s' = x
    /\ res' = outcome
    /\ pc' = "done"
    /\ UNCHANGED <<a, b, u, w, xs>>

Mul == Call("mul", Result__mul__(a, b))

Div == Call("div", Result__truediv__(a, b))

Add == Call("add", Result__add__(a, b))

Sub == Call("sub", Result__sub__(a, b))

Neg == Call("neg", Result__neg__(a))

Lt == Call("lt", Result__lt__(a, b))

Le == Call("le", Result__le__(a, b))

Gt == Call("gt", Result__gt__(a, b))

Ge == Call("ge", Result__ge__(a, b))

Eq == Call("eq", Bool(Result__eq__(a, b)))

Ne == Call("ne", Bool(Result__ne__(a, b)))

Pow == \E x \in Scalars :
          /\ PowModelled(a.value, x)
          /\ CallNum("pow", x, Result__pow__(a, x))

PowQ == /\ PowModelled(a.value, b.value)
        /\ Call("powq", Result__pow__q(a, b))

\* a = <the result>: the outcome of the last call becomes the operand
Rebind ==
    /\ pc = "done"
    /\ res.kind = "qty"
    /\ InScope(res.q)
    /\ a' = res.q
    /\ s' = Zero
    /\ u' = "none"
    /\ w' = "none"
    /\ op' = "none"
    /\ res' = NoRes
    /\ pc' = "ready"
    /\ UNCHANGED <<b, xs>>

Next ==
    \/ Mul \/ Div \/ Add \/ Sub \/ Neg
    \/ Lt \/ Le \/ Gt \/ Ge \/ Eq \/ Ne
    \/ Pow \/ PowQ
    \/ Rebind

Spec == Init /\ [][Next]_vars

----------------------------------------------------------------------------
(* The client calling the operators that take a bare number.               *)

InitNum ==
    /\ a \in Pool
    /\ b = Unitless(Zero)
    /\ s = Zero
    /\ u = "none"
    /\ w = "none"
    /\ xs = <<>>
    /\ op = "none"
    /\ res = NoRes
    /\ pc = "ready"

AddNum == \E x \in Scalars : CallNum("add_num", x, Result__add__num(a, x))

RAddNum == \E x \in Scalars : CallNum("radd", x, Result__radd__(a, x))

SubNum == \E x \in Scalars : CallNum("sub_num", x, Result__sub__num(a, x))

RSubNum == \E x \in Scalars : CallNum("rsub", x, Result__rsub__(a, x))

MulNum == \E x \in Scalars : CallNum("mul_num", x, Times(a, x))

RMulNum == \E x \in Scalars : CallNum("rmul", x, RTimes(x, a))

DivNum == \E x \in Scalars : CallNum("div_num", x, Over(a, x))

RDivNum == \E x \in Scalars : CallNum("rdiv", x, Result__rtruediv__(a, x))

NextNum ==
    \/ AddNum \/ RAddNum \/ SubNum \/ RSubNum
    \/ MulNum \/ RMulNum \/ DivNum \/ RDivNum
    \/ Rebind

SpecNum == InitNum /\ [][NextNum]_vars

----------------------------------------------------------------------------
(* The client calling the conversion API on one quantity of any unit.      *)

AllUnits == UNION {UnitsOf(cls) : cls \in Classes}

\* the quantities constructed from the raw value v: every class in every one
\* of its units
ConvPool(v) ==
    {New(cls, v, unit) : <<cls, unit>> \in
        {x \in UnitClasses \X AllUnits : x[2] \in UnitsOf(x[1])}}
    \cup {Unitless(v)}
    \cup {Undefined(flt, v) : flt \in {UNITLESS, LENGTH}}

\* s keeps the value the constructor of a was given
InitConv ==
    /\ s \in Values
    /\ a \in ConvPool(s)
    /\ b = Unitless(Zero)
    /\ u = "none"
    /\ w = "none"
    /\ xs = <<>>
    /\ op = "none"
    /\ res = NoRes
    /\ pc = "ready"

\* one call on a and a unit
CallUnit(name, unit, outcome) ==
    /\ pc = "ready"
    /\ op' = name
    /\ u' = unit
    /\ res' = outcome
    /\ pc' = "done"
    /\ UNCHANGED <<a, b, s, w, xs>>

ToValue ==
    \E unit \in AllUnits :
       /\ a.cls \in UnitClasses
       /\ CallUnit("to_value", unit, to_value(a, unit))

ConvertTo == \E unit \in AllUnits : CallUnit("convert_to", unit, convert_to(a, unit))

InputUnitValue == Call("input_unit_value", input_unit_value(a))

NextConv == ToValue \/ ConvertTo \/ InputUnitValue

SpecConv == InitConv /\ [][NextConv]_vars

----------------------------------------------------------------------------
(* The client dividing and multiplying a quantity by a unit member.        *)

\* the members of the eight unit enums
EnumUnits == UNION {UnitsOf(cls) : cls \in UnitClasses}

DivUnit == \E unit \in EnumUnits : CallUnit("div_unit", unit, OverUnit(a, unit))

MulUnit == \E unit \in EnumUnits : CallUnit("mul_unit", unit, TimesUnit(a, unit))

NextByUnit == DivUnit \/ MulUnit

SpecByUnit == InitConv /\ [][NextByUnit]_vars

----------------------------------------------------------------------------
(* The client combining two unit members.                                  *)

InitUnits ==
    /\ a = Unitless(Zero)
    /\ b = Unitless(Zero)
    /\ s = Zero
    /\ u = "none"
    /\ w = "none"
    /\ xs = <<>>
    /\ op = "none"
    /\ res = NoRes
    /\ pc = "ready"

CallUnits(name, left, right, outcome) ==
    /\ pc = "ready"
    /\ op' = name
    /\ w' = left
    /\ u' = right
    /\ res' = outcome
    /\ pc' = "done"
    /\ UNCHANGED <<a, b, s, xs>>

UnitMul ==
    \E left \in EnumUnits, right \in EnumUnits :
       CallUnits("unit_mul", left, right, UnitTimes(left, right))

UnitDiv ==
    \E left \in EnumUnits, right \in EnumUnits :
       CallUnits("unit_div", left, right, UnitOver(left, right))

NextUnits == UnitMul \/ UnitDiv

SpecUnits == InitUnits /\ [][NextUnits]_vars

----------------------------------------------------------------------------
(* The client calling the math helpers on one or two quantities.           *)

Sqrt == /\ SqrtModelled(a.value)
        /\ Call("sqrt", Result_sqrt(a))

AbsOf == Call("abs", Result_abs(a))

\* Result.sqrt(a ** 2)
SqrtOfSquare ==
    LET square == Result__pow__(a, FromInt(2))
    IN  Call("sqrt_sq", IF square.kind = "qty" THEN Result_sqrt(square.q) ELSE square)

Min == Call("min", Result_min(a, b))

Max == Call("max", Result_max(a, b))

SignedEnvelope ==
    Call("signed_envelope", Result_absolute_value_signed_envelope(a, b))

NextMath == Sqrt \/ AbsOf \/ SqrtOfSquare \/ Min \/ Max \/ SignedEnvelope

SpecMath == Init /\ [][NextMath]_vars

----------------------------------------------------------------------------
(* The client taking roots of one quantity, and dividing its FLT by an     *)
(* integer.                                                                *)

\* largest divisor of an FLT
MaxDivisor == 4

Divisors == (-MaxDivisor..MaxDivisor) \ {0}

\* the dimensions that are a whole multiple of a dimension within MaxDeg
RootDimensions ==
    {FLT(f * k, l * k, t * k) : <<f, l, t, k>> \in
        (-MaxDeg..MaxDeg) \X (-MaxDeg..MaxDeg) \X (-MaxDeg..MaxDeg) \X (1..MaxDivisor)}

\* magnitudes: those of Values and 2 ** 12, which has all three roots
RootValues == Values \cup {NPow(FromInt(2), 12)}

\* operands of the roots: the operands of the arithmetic operators and the
\* Undefined quantities that products and quotients of them build up to
RootPool ==
    Pool \cup {Undefined(flt, v) : <<flt, v>> \in RootDimensions \X RootValues}

InitRoot ==
    /\ a \in RootPool
    /\ b = Unitless(Zero)
    /\ s = Zero
    /\ u = "none"
    /\ w = "none"
    /\ xs = <<>>
    /\ op = "none"
    /\ res = NoRes
    /\ pc = "ready"

ThirdRoot == /\ RootModelled(a.value, 3)
             /\ Call("third_root", Result_third_root(a))

FourthRoot == /\ RootModelled(a.value, 4)
              /\ Call("fourth_root", Result_fourth_root(a))

\* a.flt / k
FltDivide == \E k \in Divisors : CallNum("flt_div", FromInt(k), FltRes(FLT__truediv__(a.flt, k)))

NextRoot == Sqrt \/ ThirdRoot \/ FourthRoot \/ FltDivide

SpecRoot == InitRoot /\ [][NextRoot]_vars

----------------------------------------------------------------------------
(* The client chaining the arithmetic operators and the math helpers that  *)
(* build a new quantity.                                                   *)

\* right operands: the pool quantities constructed from the raw value 1
InitDisplay ==
    /\ a \in Pool
    /\ b \in {q \in Pool : q = IF q.cls \in UnitClasses THEN New(q.cls, One, q.display_unit)
                                 ELSE [q EXCEPT !.value = One]}
    /\ s = Zero
    /\ u = "none"
    /\ w = "none"
    /\ xs = <<>>
    /\ op = "none"
    /\ res = NoRes
    /\ pc = "ready"

NextDisplay ==
    \/ Mul \/ Div \/ Add \/ Sub \/ Neg \/ Pow \/ PowQ
    \/ AddNum \/ RAddNum \/ SubNum \/ RSubNum
    \/ MulNum \/ RMulNum \/ DivNum \/ RDivNum
    \/ Sqrt \/ ThirdRoot \/ FourthRoot \/ AbsOf
    \/ Rebind

SpecDisplay == InitDisplay /\ [][NextDisplay]_vars

----------------------------------------------------------------------------
(* The client calling min and max on a collection, held in xs.             *)

\* longest collection
MaxLen == 3

\* the quantities a collection is made of: lengths in inches and feet, an
\* Undefined of the LENGTH dimension, a force and a dimensionless number
Elements ==
    {New("Length", v, unit) : <<v, unit>> \in Values \X {"INCH", "FOOT"}}
    \cup {Undefined(LENGTH, One), New("Force", One, "KIP"), Unitless(One)}

Collections == UNION {[1..n -> Elements] : n \in 0..MaxLen}

InitList ==
    /\ a = Unitless(Zero)
    /\ b = Unitless(Zero)
    /\ xs \in Collections
    /\ s = Zero
    /\ u = "none"
    /\ w = "none"
    /\ op = "none"
    /\ res = NoRes
    /\ pc = "ready"

MinList == Call("min_list", Result_min_list(xs))

MaxList == Call("max_list", Result_max_list(xs))

NextList == MinList \/ MaxList

SpecList == InitList /\ [][NextList]_vars

----------------------------------------------------------------------------
(* The client looking a unit up by its symbol: the enum is named by w, the *)
(* string argument is held in xs.                                          *)

UnitEnums ==
    {"LengthUnit", "AreaUnit", "LengthCubedUnit", "LengthToThe4thUnit", "ForceUnit",
     "MomentUnit", "ForcePerLengthUnit", "StressUnit"}

\* str.upper() on the letters of the symbols
str_upper(str) ==
    [i \in DOMAIN str |->
        IF \E c \in DOMAIN LowerCase : LowerCase[c] = str[i]
        THEN CHOOSE c \in DOMAIN LowerCase : LowerCase[c] = str[i]
        ELSE str[i]]

\* the strings tried: every declared symbol as written, in upper and in
\* lower case, bare and padded with whitespace, and strings that are no
\* symbol at all
SymbolInputs ==
    LET written == {symbol[unit] : unit \in DOMAIN symbol}
        cased == written \cup {str_upper(x) : x \in written}
                         \cup {str_lower(x) : x \in written}
        pads == {<<>>, <<" ">>, <<"\t", "\n">>}
    IN  {l \o x \o r : <<l, x, r>> \in pads \X cased \X pads}
        \cup {<<>>, <<" ">>, <<"x", "y", "z">>, <<"k", " ", "N">>, <<"i", "n", "2">>}

InitSymbol ==
    /\ a = Unitless(Zero)
    /\ b = Unitless(Zero)
    /\ xs \in SymbolInputs
    /\ s = Zero
    /\ u = "none"
    /\ w \in UnitEnums
    /\ op = "none"
    /\ res = NoRes
    /\ pc = "ready"

FromSymbol == Call("from_symbol", from_symbol(w, xs))

NextSymbol == FromSymbol

SpecSymbol == InitSymbol /\ [][NextSymbol]_vars

----------------------------------------------------------------------------
(* The client computing with two FLT objects, held in a and b.             *)

\* every FLT whose degrees lie within MaxDeg
Dimensions ==
    {FLT(f, l, t) : <<f, l, t>> \in
        (-MaxDeg..MaxDeg) \X (-MaxDeg..MaxDeg) \X (-MaxDeg..MaxDeg)}

InitFLT ==
    /\ a \in Dimensions
    /\ b \in Dimensions
    /\ s = Zero
    /\ u = "none"
    /\ w = "none"
    /\ xs = <<>>
    /\ op = "none"
    /\ res = NoRes
    /\ pc = "ready"

FltAdd == Call("flt_add", FltRes(FLT__add__(a, b)))

FltSub == Call("flt_sub", FltRes(FLT__sub__(a, b)))

FltNeg == Call("flt_neg", FltRes(FLT__neg__(a)))

\* (a + b) - b
FltAddSub == Call("flt_add_sub", FltRes(FLT__sub__(FLT__add__(a, b), b)))

\* -(-a)
FltNegNeg == Call("flt_neg_neg", FltRes(FLT__neg__(FLT__neg__(a))))

FltEq == Call("flt_eq", Bool(FLT__eq__(a, b)))

\* hash(a) == hash(b)
FltHashEq == Call("flt_hash_eq", Bool(FLT__hash__(a) = FLT__hash__(b)))

GetType == Call("get_type", TypeRes(get_type(a)))

NextFLT ==
    \/ FltAdd \/ FltSub \/ FltNeg \/ FltAddSub \/ FltNegNeg \/ FltEq \/ FltHashEq
    \/ GetType

SpecFLT == InitFLT /\ [][NextFLT]_vars

----------------------------------------------------------------------------
(* The client comparing two quantities whose magnitudes lie a few          *)
(* tolerances apart.                                                       *)

\* the decimal exponent of the magnitudes tried for a class: i * 10^-TolExp
TolExp(cls) ==
    CASE cls \in {"Length", "Area", "LengthCubed", "LengthToThe4th"} -> 3
      [] cls \in {"Force", "ForcePerLength", "Stress"} -> 4
      [] cls = "Moment" -> 2
      [] cls = "Unitless" -> 10

FinePool ==
    {create_with_standard_units(cls, Sci(i, TolExp(cls))) :
        <<cls, i>> \in (UnitClasses \cup {"Unitless"}) \X (-1..MaxVal)}
    \cup {Undefined(UNITLESS, Sci(i, 10)) : i \in -1..MaxVal}
    \cup {Undefined(AREA, Sci(i, 3)) : i \in -1..MaxVal}
    \cup {Undefined(FLT(-1, 1, 0), Sci(i, 10)) : i \in -1..MaxVal}

InitEq ==
    /\ a \in FinePool
    /\ b \in FinePool
    /\ s = Zero
    /\ u = "none"
    /\ w = "none"
    /\ xs = <<>>
    /\ op = "none"
    /\ res = NoRes
    /\ pc = "ready"

\* a == x and a != x for an x that is None or not a Result (here a number)
EqOther == \E x \in Scalars : CallNum("eq_other", x, Bool(Result__eq__other(a)))

NeOther == \E x \in Scalars : CallNum("ne_other", x, Bool(Result__ne__other(a)))

NextEq == Eq \/ Ne \/ EqOther \/ NeOther

SpecEq == InitEq /\ [][NextEq]_vars

----------------------------------------------------------------------------
(* Properties of Spec: arithmetic and ordering between two quantities.     *)

\* the concrete class of each named family, by the UnitType of its FLT
NamedFamily ==
    "UNITLESS" :> "Unitless" @@ "FORCE" :> "Force" @@ "LENGTH" :> "Length"
    @@ "AREA" :> "Area" @@ "LENGTH_CUBED" :> "LengthCubed"
    @@ "LENGTH_TO_THE_4TH" :> "LengthToThe4th" @@ "MOMENT" :> "Moment"
    @@ "FORCE_PER_LENGTH" :> "ForcePerLength" @@ "STRESS" :> "Stress"

Done(names) == pc = "done" /\ op \in names

Returned == res.kind = "qty"

\* C1: whenever a product, quotient or power of quantities has the FLT of a
\* named family, the returned object is of that family's class; 2 ft * 3 ft
\* converts to 6 square feet.
C1_NamedFamilyDispatch ==
    /\ (Done({"mul", "div", "pow", "powq"}) /\ Returned
          /\ get_type(res.q.flt) \in DOMAIN NamedFamily)
       => res.q.cls = NamedFamily[get_type(res.q.flt)]
    /\ (Done({"mul"}) /\ a = New("Length", FromInt(2), "FOOT")
          /\ b = New("Length", FromInt(3), "FOOT"))
       => /\ Returned
          /\ convert_to(res.q, "SQUARE_FOOT") = Number(FromInt(6))

\* the case of C1 that the code decides otherwise: Length * Length comes back
\* as an Undefined carrying the FLT of Area
C1_LengthTimesLength ==
    /\ Done({"mul"}) /\ a.cls = "Length" /\ b.cls = "Length"
    /\ Returned /\ res.q.cls = "Undefined" /\ res.q.flt = AREA

\* C2: a * b, and a / b with a non-zero divisor magnitude, return a quantity
\* for every pair of operands and never raise.
C2_MulDivAlwaysLegal ==
    (Done({"mul", "div"}) /\ (op = "div" => b.value # Zero)) => Returned

\* the case of C2 that the code decides otherwise: Force / LengthCubed raises
C2_ForceOverLengthCubed ==
    /\ Done({"div"}) /\ a.cls = "Force" /\ b.cls = "LengthCubed" /\ b.value # Zero
    /\ res.kind = "err" /\ res.err = "AttributeError"

OneTwelfth == [n |-> 1, d |-> 1, p2 |-> -2, p3 |-> -1, p5 |-> 0, pM |-> 0, pK |-> 0]

\* C3: when a * b (a / b) returns a value, its FLT is the componentwise sum
\* (difference) of the operands' degrees and its magnitude the product
\* (quotient) of their magnitudes; operands of one FLT divide to a Unitless,
\* 1 in / 1 ft to 1/12.
C3_MulDivDimensionAndMagnitude ==
    /\ (Done({"mul"}) /\ Returned) =>
          /\ res.q.flt.force_degree = a.flt.force_degree + b.flt.force_degree
          /\ res.q.flt.length_degree = a.flt.length_degree + b.flt.length_degree
          /\ res.q.flt.time_degree = a.flt.time_degree + b.flt.time_degree
          /\ res.q.value = NMul(a.value, b.value)
    /\ (Done({"div"}) /\ Returned) =>
          /\ res.q.flt.force_degree = a.flt.force_degree - b.flt.force_degree
          /\ res.q.flt.length_degree = a.flt.length_degree - b.flt.length_degree
          /\ res.q.flt.time_degree = a.flt.time_degree - b.flt.time_degree
          /\ res.q.value = NDiv(a.value, b.value)
          /\ a.flt = b.flt => res.q.cls = "Unitless"
    /\ (Done({"div"}) /\ a = New("Length", One, "INCH") /\ b = New("Length", One, "FOOT"))
       => res = Ok(Unitless(OneTwelfth))

C3_Witness ==
    /\ Done({"div"}) /\ a.cls = "Moment" /\ b.cls = "Moment"
    /\ a.input_unit = "KIP_FOOT" /\ b.input_unit = "KIP_INCH"
    /\ Returned /\ res.q.cls = "Unitless" /\ res.q.value = FromInt(12 * MaxVal)

\* C4: +, -, <, <=, > and >= on two quantities of different FLT raise the
\* dimension-mismatch ValueError and return nothing.
C4_MismatchRaises ==
    (Done({"add", "sub", "lt", "le", "gt", "ge"}) /\ a.flt # b.flt)
    => (res.kind = "err" /\ res.err = "ValueError")

C4_Witness ==
    /\ Done({"lt"}) /\ a.cls = "Length" /\ b.cls = "Force"
    /\ res.kind = "err" /\ res.err = "ValueError"

\* C5: a + b (a - b) on operands of one FLT returns that FLT, the sum
\* (difference) of the magnitudes, and the class of the operands.
C5_AddSubKeepFamily ==
    (Done({"add", "sub"}) /\ a.flt = b.flt) =>
       /\ Returned
       /\ res.q.flt = a.flt
       /\ res.q.value = IF op = "add" THEN NAdd(a.value, b.value)
                        ELSE NSub(a.value, b.value)
       /\ a.cls = b.cls => res.q.cls = a.cls

\* the case of C5 that the code decides otherwise: Area + Area comes back as
\* an Undefined
C5_AreaPlusArea ==
    /\ Done({"add"}) /\ a.cls = "Area" /\ b.cls = "Area"
    /\ Returned /\ res.q.cls = "Undefined" /\ res.q.value = NAdd(a.value, b.value)

\* the class the registry names for an FLT: the named family's class, and
\* Undefined for every other FLT
ExpectedClass(flt) ==
    IF get_type(flt) \in DOMAIN NamedFamily THEN NamedFamily[get_type(flt)]
    ELSE "Undefined"

\* q ** e for a number e on which the float power is defined and real
PowerOf(q, e) ==
    IF is_integer(e)
    THEN /\ Returned
         /\ res.q.flt.force_degree = q.flt.force_degree * ToInt(e)
         /\ res.q.flt.length_degree = q.flt.length_degree * ToInt(e)
         /\ res.q.flt.time_degree = q.flt.time_degree * ToInt(e)
         /\ res.q.value = FloatPow(q.value, e).v
         /\ res.q.cls = ExpectedClass(res.q.flt)
    ELSE /\ Returned
         /\ res.q.flt = UNITLESS
         /\ res.q.cls = "Unitless"
         /\ res.q.value = FloatPow(q.value, e).v

\* C12: q ** e with an integer-valued e has q's FLT times e, the magnitude
\* q.value ** e and the class of the new FLT; with another e it is a Unitless
\* of magnitude q.value ** e; a Result exponent of non-zero FLT is rejected.
C12_Power ==
    /\ (Done({"pow"}) /\ FloatPow(a.value, s).exc = "none") => PowerOf(a, s)
    /\ (Done({"powq"}) /\ b.flt = UNITLESS /\ FloatPow(a.value, b.value).exc = "none")
       => PowerOf(a, b.value)
    /\ (Done({"powq"}) /\ b.flt # UNITLESS) => (res.kind = "err" /\ res.err = "ValueError")

\* the case of C12 that the code decides otherwise: LengthCubed ** 2 raises
C12_LengthCubedSquared ==
    /\ Done({"pow"}) /\ a.cls = "LengthCubed" /\ s = FromInt(2)
    /\ res.kind = "err" /\ res.err = "AttributeError"

----------------------------------------------------------------------------
(* Properties of SpecConv: construction in a unit and conversion back.     *)

\* C6: a quantity of a unit-bearing class constructed from the value s in the
\* unit U reports s again from to_value(U), convert_to(U) and
\* input_unit_value.
C6_RoundTrip ==
    (/\ pc = "done"
     /\ a.cls \in UnitClasses
     /\ \/ op = "input_unit_value"
        \/ op \in {"to_value", "convert_to"} /\ u = a.input_unit)
    => res = Number(s)

\* the case of C6 that the code decides otherwise: 1 Pa reads back as 10^6 Pa
C6_PascalRoundTrip ==
    /\ Done({"to_value"}) /\ a = New("Stress", One, "PA") /\ u = "PA"
    /\ res = Number(FromInt(1000000))

\* C7: to_value(U2) of a quantity constructed from the value s in the unit U1
\* is s * U1.get_conversion_factor() / U2.get_conversion_factor().
C7_ConversionConsistency ==
    (Done({"to_value"}) /\ u \in UnitsOf(a.cls))
    => res = Number(NDiv(NMul(s, get_conversion_factor(a.input_unit)),
                         get_conversion_factor(u)))

\* the case of C7 that the code decides otherwise: 1 ksi in pascals
C7_KsiToPascal ==
    /\ Done({"to_value"}) /\ a = New("Stress", One, "KSI") /\ u = "PA"
    /\ res.kind = "num"
    /\ res.num = NMul(NDiv(One, get_conversion_factor("PA")), FromInt(1000000))

\* C11: to_value and convert_to with a unit that is not a member of the
\* quantity's own unit enum (for Unitless and Undefined: not their own
\* sentinel) raise ValueError and return no number.
C11_ForeignUnitRejected ==
    (Done({"to_value", "convert_to"}) /\ u \notin UnitsOf(a.cls))
    => (res.kind = "err" /\ res.err = "ValueError")

C11_Witness ==
    /\ Done({"to_value"}) /\ a.cls = "Length" /\ u = "KIP"
    /\ res.kind = "err" /\ res.err = "ValueError"

----------------------------------------------------------------------------
(* Properties of SpecEq: equality.                                         *)

\* the tolerances by family: 1e-3 for Length and Area, 1e-4 for Force and
\* Stress, 1e-2 for Moment, 1e-10 for Unitless and Undefined
StatedTolerance(q) ==
    CASE q.cls \in {"Length", "Area"} -> Sci(1, 3)
      [] q.cls \in {"Force", "Stress"} -> Sci(1, 4)
      [] q.cls = "Moment" -> Sci(1, 2)
      [] q.cls \in {"Unitless", "Undefined"} -> Sci(1, 10)
      [] OTHER -> equality_tolerance(q)

SameWithinTolerance(x, y) ==
    /\ x.flt.force_degree = y.flt.force_degree
    /\ x.flt.length_degree = y.flt.length_degree
    /\ x.flt.time_degree = y.flt.time_degree
    /\ NLe(NAbs(NSub(x.value, y.value)), StatedTolerance(x))

\* C8: a == b is true exactly when the FLTs are identical and the magnitudes
\* differ by at most the tolerance of a's class; with a non-Result operand
\* it is false; a != b is its negation; neither raises.
C8_Equality ==
    /\ Done({"eq"}) => res = Bool(SameWithinTolerance(a, b))
    /\ Done({"ne"}) => res = Bool(~SameWithinTolerance(a, b))
    /\ Done({"eq_other"}) => res = Bool(FALSE)
    /\ Done({"ne_other"}) => res = Bool(TRUE)

C8_Witness ==
    /\ Done({"eq"}) /\ a.cls = "Length" /\ b.cls = "Length"
    /\ a.value = Sci(2, 3) /\ b.value = Sci(1, 3)
    /\ res = Bool(TRUE)

\* C25: a == b is true exactly when b == a is, for any two quantities,
\* an Area and the Undefined product of two lengths included.
C25_EqualitySymmetric ==
    Done({"eq"}) => (res.kind = "bool" /\ res.bool = Result__eq__(b, a))

\* the same for two operands whose classes have one tolerance
D25_SymmetricOnOneTolerance ==
    (Done({"eq"}) /\ equality_tolerance(a) = equality_tolerance(b))
    => (res.kind = "bool" /\ res.bool = Result__eq__(b, a))

\* the number of true conditions in a sequence of conditions
RECURSIVE CountTrue(_)
CountTrue(conditions) ==
    IF conditions = <<>> THEN 0
    ELSE (IF Head(conditions) THEN 1 ELSE 0) + CountTrue(Tail(conditions))

\* C30: for two quantities of identical FLT exactly one of a < b, a == b
\* and a > b is true, and a <= b is true exactly when a < b or a == b is.
C30_Trichotomy ==
    (Done({"eq"}) /\ FLT__eq__(a.flt, b.flt))
    => LET lt == Result__lt__(a, b)
           gt == Result__gt__(a, b)
           le == Result__le__(a, b)
       IN  /\ lt.kind = "bool" /\ gt.kind = "bool" /\ le.kind = "bool"
           /\ CountTrue(<<lt.bool, res.bool, gt.bool>>) = 1
           /\ le.bool <=> (lt.bool \/ res.bool)

\* the same for two magnitudes that are equal, or further apart than the
\* tolerance
D30_TrichotomyOutsideTolerance ==
    (Done({"eq"}) /\ FLT__eq__(a.flt, b.flt)
       /\ (a.value = b.value
              \/ NLt(equality_tolerance(a), NAbs(NSub(a.value, b.value)))))
    => LET lt == Result__lt__(a, b)
           gt == Result__gt__(a, b)
           le == Result__le__(a, b)
       IN  /\ lt.kind = "bool" /\ gt.kind = "bool" /\ le.kind = "bool"
           /\ CountTrue(<<lt.bool, res.bool, gt.bool>>) = 1
           /\ le.bool <=> (lt.bool \/ res.bool)

----------------------------------------------------------------------------
(* Properties of SpecNum: arithmetic with a bare number.                   *)

\* C9: q + s, s + q, q - s and s - q return a quantity of q's class with the
\* respective magnitude when q's FLT is (0,0,0), and raise otherwise.
C9_ScalarAddSub ==
    Done({"add_num", "radd", "sub_num", "rsub"}) =>
       IF a.flt = UNITLESS
       THEN /\ Returned
            /\ res.q.cls = a.cls
            /\ res.q.flt = UNITLESS
            /\ res.q.value = CASE op = "add_num" -> NAdd(a.value, s)
                               [] op = "radd" -> NAdd(s, a.value)
                               [] op = "sub_num" -> NSub(a.value, s)
                               [] op = "rsub" -> NSub(s, a.value)
       ELSE res.kind = "err"

C9_Witness ==
    /\ Done({"rsub"}) /\ a = Undefined(UNITLESS, FromInt(3)) /\ s = One
    /\ res = Ok(Undefined(UNITLESS, FromInt(-2)))

\* C10: q * s, s * q and q / s (s non-zero) return a quantity of q's class
\* and FLT whose magnitude is the product (quotient), also for an Undefined.
C10_ScalarMulDiv ==
    (Done({"mul_num", "rmul", "div_num"}) /\ (op = "div_num" => s # Zero)) =>
       /\ Returned
       /\ res.q.cls = a.cls
       /\ res.q.flt = a.flt
       /\ res.q.value = IF op = "div_num" THEN NDiv(a.value, s) ELSE NMul(a.value, s)

C10_Witness ==
    /\ Done({"mul_num"}) /\ a = Undefined(LENGTH, FromInt(2)) /\ s = FromInt(3)
    /\ res = Ok(Undefined(LENGTH, FromInt(6)))

----------------------------------------------------------------------------
(* Properties of SpecByUnit: a quantity divided or multiplied by a unit.   *)

\* C13: a quantity of a unit-bearing family divided by a unit of that same
\* family is a Unitless whose value is q.convert_to(U).
C13_DivideByOwnUnit ==
    (Done({"div_unit"}) /\ a.cls \in UnitClasses /\ u \in UnitsOf(a.cls))
    => /\ Returned
       /\ res.q.cls = "Unitless"
       /\ convert_to(a, u).kind = "num"
       /\ res.q.value = convert_to(a, u).num

\* the outcome is a quantity of class cls, standard magnitude value and
\* display unit unit
ReturnedAs(cls, value, unit) ==
    /\ Returned
    /\ res.q.cls = cls
    /\ res.q.flt = ClassFLT(cls)
    /\ res.q.value = value
    /\ res.q.display_unit = unit

\* C14: for a table combination of the quantity's display unit and the unit
\* operand, Force / LengthUnit is a ForcePerLength of the force's standard
\* magnitude divided by the unit's factor, Force * LengthUnit a Moment of the
\* standard magnitude times the factor, Moment / LengthUnit a Force and
\* Moment / ForceUnit a Length of the standard magnitude divided by the factor.
C14_TableDrivenMagnitude ==
    LET pair == <<a.display_unit, u>>
        factor == get_conversion_factor(u)
    IN  /\ (Done({"div_unit"}) /\ a.cls = "Force" /\ pair \in DOMAIN _DIVISION_COMBINATIONS)
           => ReturnedAs("ForcePerLength", NDiv(a.value, factor),
                         _DIVISION_COMBINATIONS[pair])
        /\ (Done({"mul_unit"}) /\ a.cls = "Force"
               /\ pair \in DOMAIN _MULTIPLICATION_COMBINATIONS)
           => ReturnedAs("Moment", NMul(a.value, factor),
                         _MULTIPLICATION_COMBINATIONS[pair])
        /\ (Done({"div_unit"}) /\ a.cls = "Moment"
               /\ pair \in DOMAIN _MOMENT_LENGTH_COMBINATIONS)
           => ReturnedAs("Force", NDiv(a.value, factor), _MOMENT_LENGTH_COMBINATIONS[pair])
        /\ (Done({"div_unit"}) /\ a.cls = "Moment"
               /\ pair \in DOMAIN _MOMENT_FORCE_COMBINATIONS)
           => ReturnedAs("Length", NDiv(a.value, factor), _MOMENT_FORCE_COMBINATIONS[pair])

\* 2 kip / FOOT is 2/12 kip/in
C14_KipPerFoot ==
    /\ Done({"div_unit"})
    /\ a = New("Force", FromInt(2), "KIP")
    /\ u = "FOOT"
    /\ ReturnedAs("ForcePerLength", NDiv(FromInt(2), FromInt(12)), "KIP_PER_FOOT")

\* the quantity of q's class and standard magnitude constructed in unit
Redisplayed(q, unit) == [q EXCEPT !.display_unit = unit, !.input_unit = unit]

\* the outcome of the call of the step on q in place of a
ByUnit(q) == IF op = "div_unit" THEN OverUnit(q, u) ELSE TimesUnit(q, u)

\* C26: dividing or multiplying a Force or a Moment by a unit of another
\* family gives the same outcome for every display unit the quantity may
\* carry: both calls fail, or both return quantities of equal magnitude.
C26_DisplayUnitIndependent ==
    (Done({"div_unit", "mul_unit"}) /\ a.cls \in {"Force", "Moment"}
       /\ u \notin UnitsOf(a.cls))
    => \A unit \in UnitsOf(a.cls) :
          LET other == ByUnit(Redisplayed(a, unit))
          IN  /\ other.kind = res.kind
              /\ Returned => (other.q.cls = res.q.cls /\ other.q.value = res.q.value)

\* the magnitudes agree whenever both calls return
D26_EqualWhenBothReturn ==
    (Done({"div_unit", "mul_unit"}) /\ a.cls \in {"Force", "Moment"}
       /\ u \notin UnitsOf(a.cls) /\ Returned)
    => \A unit \in UnitsOf(a.cls) :
          LET other == ByUnit(Redisplayed(a, unit))
          IN  other.kind = "qty"
              => (other.q.cls = res.q.cls /\ other.q.value = res.q.value)

----------------------------------------------------------------------------
(* Properties of SpecUnits: compound units derived from two units.         *)

\* the listed pairs of a force unit and a length unit: both imperial or both
\* metric
ListedPair(force_unit, length_unit) ==
    \/ force_unit \in {"POUND", "KIP"} /\ length_unit \in {"INCH", "FOOT"}
    \/ /\ force_unit \in {"NEWTON", "KILONEWTON"}
       /\ length_unit \in {"MILLIMETER", "CENTIMETER", "METER"}

\* the outcome is the unit of the enum whose factor is the given one
DerivedUnit(enum, factor) ==
    /\ res.kind = "unit"
    /\ res.unit \in Range(enum)
    /\ get_conversion_factor(res.unit) = factor

Rejected == res.kind = "err" /\ res.err = "TypeError"

\* C15: LengthUnit * LengthUnit is the matching AreaUnit when both operands
\* are the same member; ForceUnit / LengthUnit and ForceUnit * LengthUnit are
\* the matching compound unit for the listed pairs; MomentUnit / ForceUnit
\* is the length unit, and MomentUnit / LengthUnit the force unit, of the
\* listed pair whose product the moment unit is; every other combination of
\* two units is rejected.
C15_UnitDerivation ==
    LET fw == get_conversion_factor(w)
        fu == get_conversion_factor(u)
        LU == Range(LengthUnit)
        FU == Range(ForceUnit)
        MU == Range(MomentUnit)
    IN  /\ Done({"unit_mul"}) =>
             IF w \in LU /\ u \in LU /\ w = u THEN DerivedUnit(AreaUnit, NMul(fw, fu))
             ELSE IF w \in FU /\ u \in LU /\ ListedPair(w, u)
             THEN DerivedUnit(MomentUnit, NMul(fw, fu))
             ELSE Rejected
        /\ Done({"unit_div"}) =>
             IF w \in FU /\ u \in LU /\ ListedPair(w, u)
             THEN DerivedUnit(ForcePerLengthUnit, NDiv(fw, fu))
             ELSE IF /\ w \in MU /\ u \in FU
                     /\ \E l \in LU : ListedPair(u, l) /\ UnitTimes(u, l) = UnitRes(w)
             THEN /\ DerivedUnit(LengthUnit, NDiv(fw, fu))
                  /\ UnitTimes(u, res.unit) = UnitRes(w)
             ELSE IF /\ w \in MU /\ u \in LU
                     /\ \E f \in FU : ListedPair(f, u) /\ UnitTimes(f, u) = UnitRes(w)
             THEN /\ DerivedUnit(ForceUnit, NDiv(fw, fu))
                  /\ UnitTimes(res.unit, u) = UnitRes(w)
             ELSE Rejected

\* ft * in is rejected
C15_FootTimesInch ==
    Done({"unit_mul"}) /\ w = "FOOT" /\ u = "INCH" /\ Rejected

\* C27: when ForceUnit * LengthUnit is a moment unit, that moment unit
\* divided by the force unit is the length unit and divided by the length
\* unit is the force unit; when MomentUnit / ForceUnit or MomentUnit /
\* LengthUnit is a unit, the product of the force unit and the length unit
\* is the moment unit; ForceUnit / LengthUnit is defined for exactly the
\* pairs ForceUnit * LengthUnit is defined for.
C27_TablesInverse ==
    LET LU == Range(LengthUnit)
        FU == Range(ForceUnit)
        MU == Range(MomentUnit)
    IN  /\ (Done({"unit_mul"}) /\ w \in FU /\ u \in LU /\ res.kind = "unit")
           => (UnitOver(res.unit, w) = UnitRes(u) /\ UnitOver(res.unit, u) = UnitRes(w))
        /\ (Done({"unit_div"}) /\ w \in MU /\ u \in FU /\ res.kind = "unit")
           => UnitTimes(u, res.unit) = UnitRes(w)
        /\ (Done({"unit_div"}) /\ w \in MU /\ u \in LU /\ res.kind = "unit")
           => UnitTimes(res.unit, u) = UnitRes(w)
        /\ (Done({"unit_div"}) /\ w \in FU /\ u \in LU)
           => (res.kind = "unit" <=> UnitTimes(w, u).kind = "unit")

C27_KipFootOverKip ==
    Done({"unit_div"}) /\ w = "KIP_FOOT" /\ u = "KIP" /\ res = UnitRes("FOOT")

----------------------------------------------------------------------------
(* Properties of SpecFLT: the algebra of dimensions.                       *)

\* the three degrees of an FLT
Degrees(x) == <<x.force_degree, x.length_degree, x.time_degree>>

\* C16: a + b is the componentwise sum of the degrees, (a + b) - b is a,
\* -(-a) is a; two FLT objects are equal exactly when their three degrees
\* are, and equal objects have equal hashes.
C16_DimensionAlgebra ==
    /\ Done({"flt_add"}) =>
          /\ res.kind = "flt"
          /\ \A i \in 1..3 : Degrees(res.flt)[i] = Degrees(a)[i] + Degrees(b)[i]
    /\ Done({"flt_add_sub"}) => (res.kind = "flt" /\ res.flt = a)
    /\ Done({"flt_neg_neg"}) => (res.kind = "flt" /\ res.flt = a)
    /\ Done({"flt_eq"}) => (res.kind = "bool" /\ res.bool = (Degrees(a) = Degrees(b)))
    /\ (Done({"flt_hash_eq"}) /\ Degrees(a) = Degrees(b))
       => (res.kind = "bool" /\ res.bool)

\* (FORCE + LENGTH) - LENGTH is FORCE again
C16_Witness ==
    Done({"flt_add_sub"}) /\ a = FORCE /\ b = LENGTH /\ res.kind = "flt" /\ res.flt = FORCE

\* the families of the fixed table and their dimensions
NamedDimension ==
    "UNITLESS" :> UNITLESS @@ "FORCE" :> FORCE @@ "LENGTH" :> LENGTH @@ "AREA" :> AREA
    @@ "LENGTH_CUBED" :> LENGTH_CUBED @@ "LENGTH_TO_THE_4TH" :> LENGTH_TO_THE_4TH
    @@ "MOMENT" :> MOMENT @@ "FORCE_PER_LENGTH" :> FORCE_PER_LENGTH
    @@ "STRESS" :> STRESS

\* the dimensions the table may name in addition
OptionalDimension ==
    "DENSITY" :> DENSITY @@ "FLEXURAL_STIFFNESS" :> FLEXURAL_STIFFNESS
    @@ "TIME" :> TIME @@ "ACCELERATION" :> ACCELERATION
    @@ "LENGTH_TO_THE_6TH" :> LENGTH_TO_THE_6TH

\* C23: get_type returns a family for every dimension triple and never
\* raises: the named family when the triple is that family's dimension, and
\* UNDEFINED for every triple that no family is named for.
C23_GetTypeTotal ==
    Done({"get_type"}) =>
       /\ res.kind = "type"
       /\ \A name \in DOMAIN NamedDimension : a = NamedDimension[name] => res.unit = name
       /\ \A name \in DOMAIN OptionalDimension :
             a = OptionalDimension[name] => res.unit \in {name, "UNDEFINED"}
       /\ (\A name \in DOMAIN NamedDimension : a # NamedDimension[name])
          /\ (\A name \in DOMAIN OptionalDimension : a # OptionalDimension[name])
          => res.unit = "UNDEFINED"

\* the case of C23 that the code decides otherwise: get_type of TIME raises
C23_TimeRaises ==
    Done({"get_type"}) /\ a = TIME /\ res.kind = "err" /\ res.err = "AttributeError"

----------------------------------------------------------------------------
(* Properties of SpecMath: the math helpers.                               *)

\* C18: for a Length q of non-negative magnitude, Result.sqrt(q ** 2) has
\* the LENGTH dimension, is of class Length and has q's magnitude.
C18_SqrtRoundTrip ==
    (Done({"sqrt_sq"}) /\ a.cls = "Length" /\ a.value.n >= 0)
    => /\ Returned
       /\ res.q.flt = LENGTH
       /\ res.q.cls = "Length"
       /\ res.q.value = a.value

\* sqrt((3 ft) ** 2) is a Length of 36 in
C18_ThreeFeet ==
    /\ Done({"sqrt_sq"})
    /\ a = New("Length", FromInt(3), "FOOT")
    /\ Returned /\ res.q.cls = "Length" /\ res.q.value = FromInt(36)

\* C19: on two quantities of the same dimension min and max return one of
\* the two operand objects itself: min the one of strictly smaller
\* magnitude, max the one of strictly larger magnitude; on different
\* dimensions they raise the mismatch error.
C19_MinMaxPair ==
    /\ (Done({"min", "max"}) /\ a.flt = b.flt)
       => /\ Returned
          /\ \/ res.ref = "a" /\ res.q = a
             \/ res.ref = "b" /\ res.q = b
    /\ (Done({"min"}) /\ a.flt = b.flt /\ NLt(a.value, b.value)) => res.ref = "a"
    /\ (Done({"min"}) /\ a.flt = b.flt /\ NLt(b.value, a.value)) => res.ref = "b"
    /\ (Done({"max"}) /\ a.flt = b.flt /\ NLt(b.value, a.value)) => res.ref = "a"
    /\ (Done({"max"}) /\ a.flt = b.flt /\ NLt(a.value, b.value)) => res.ref = "b"
    /\ (Done({"min", "max"}) /\ a.flt # b.flt)
       => (res.kind = "err" /\ res.err = "ValueError")

\* min(3 in, 1 ft) is the 3 in object
C19_ThreeInchesOneFoot ==
    /\ Done({"min"})
    /\ a = New("Length", FromInt(3), "INCH")
    /\ b = New("Length", FromInt(1), "FOOT")
    /\ Returned /\ res.ref = "a" /\ res.q = a

C29_SignedEnvelopeCommutes ==
    (Done({"signed_envelope"}) /\ a.flt = b.flt)
    => LET swapped == Result_absolute_value_signed_envelope(b, a)
       IN  /\ Returned
           /\ swapped.kind = "qty"
           /\ res.q.value = swapped.q.value

----------------------------------------------------------------------------
(* Properties of SpecList: min and max of a collection.                    *)

\* C20: min and max of a collection raise on the empty collection and on
\* elements of more than one dimension; otherwise they return an element of
\* the collection whose magnitude is <= (for max: >=) every element's.
C20_MinMaxList ==
    Done({"min_list", "max_list"}) =>
       IF xs = <<>> \/ \E i, j \in DOMAIN xs : xs[i].flt # xs[j].flt
       THEN res.kind = "err" /\ res.err = "ValueError"
       ELSE /\ Returned
            /\ res.ref = "xs"
            /\ res.index \in DOMAIN xs
            /\ res.q = xs[res.index]
            /\ op = "min_list" => \A i \in DOMAIN xs : NLe(res.q.value, xs[i].value)
            /\ op = "max_list" => \A i \in DOMAIN xs : NLe(xs[i].value, res.q.value)

\* the minimum of a collection of a Length, a second element and an
\* Undefined of the LENGTH dimension is the element in the middle
C20_MiddleElement ==
    /\ Done({"min_list"})
    /\ Len(xs) = 3
    /\ xs[1].cls = "Length" /\ xs[3].cls = "Undefined"
    /\ Returned /\ res.index = 2

----------------------------------------------------------------------------
(* Properties of SpecSymbol: symbol lookup.                                *)

\* two characters that are equal or the two cases of one letter
SameLetter(c, d) ==
    \/ c = d
    \/ c \in DOMAIN LowerCase /\ LowerCase[c] = d
    \/ d \in DOMAIN LowerCase /\ LowerCase[d] = c

\* str is the string sym, ignoring case, between two runs of whitespace
Spells(str, sym) ==
    \E i \in 1..(Len(str) + 1) :
       LET j == i + Len(sym) - 1
       IN  /\ j <= Len(str)
           /\ \A k \in 1..Len(sym) : SameLetter(str[i + k - 1], sym[k])
           /\ \A k \in 1..(i - 1) : str[k] \in Whitespace
           /\ \A k \in (j + 1)..Len(str) : str[k] \in Whitespace

\* C22: from_symbol of a unit enum returns the one member whose symbol is the
\* string ignoring case and surrounding whitespace, so the symbol of a member
\* gives that member back; it raises when no member of the enum matches.
C22_SymbolLookup ==
    Done({"from_symbol"}) =>
       LET matching == {unit \in Range(Enum(w)) : Spells(xs, symbol[unit])}
       IN  /\ Cardinality(matching) <= 1
           /\ matching = {} => (res.kind = "err" /\ res.err = "ValueError")
           /\ \A unit \in matching : res = UnitRes(unit)
           /\ \A unit \in Range(Enum(w)) : xs = symbol[unit] => res = UnitRes(unit)

\* " KN" padded with whitespace is the kilonewton
C22_PaddedUpperCase ==
    /\ Done({"from_symbol"})
    /\ w = "ForceUnit"
    /\ xs = <<" ", "K", "N", "\t", "\n">>
    /\ res = UnitRes("KILONEWTON")

----------------------------------------------------------------------------
(* Properties of SpecRoot.                                                 *)

\* the divisor of the call: 2, 3, 4 for the roots, the integer operand for
\* the FLT division
Divisor ==
    CASE op = "sqrt" -> 2
      [] op = "third_root" -> 3
      [] op = "fourth_root" -> 4
      [] OTHER -> ToInt(s)

\* the whole numbers q with q * k = x
Quotients(x, k) == {q \in -Abs(x)..Abs(x) : q * k = x}

\* the FLT x divided componentwise by k when all three degrees divide
\* exactly, and (0, 0, 0) otherwise
DividedDimension(x, k) ==
    LET F == Quotients(x.force_degree, k)
        L == Quotients(x.length_degree, k)
        T == Quotients(x.time_degree, k)
    IN  IF F # {} /\ L # {} /\ T # {}
        THEN FLT(CHOOSE q \in F : TRUE, CHOOSE q \in L : TRUE, CHOOSE q \in T : TRUE)
        ELSE UNITLESS

\* C24: the square, third and fourth root of a quantity of non-negative
\* magnitude return a quantity whose FLT is the operand's divided
\* componentwise by 2, 3, 4 when all three degrees divide exactly and
\* (0, 0, 0) otherwise; FLT division by a non-zero integer follows the same
\* rule.
C24_RootDimension ==
    /\ (Done({"sqrt", "third_root", "fourth_root"}) /\ a.value.n >= 0)
       => (Returned /\ res.q.flt = DividedDimension(a.flt, Divisor))
    /\ Done({"flt_div"})
       => (res.kind = "flt" /\ res.flt = DividedDimension(a.flt, Divisor))

\* the same for the roots whose quotient dimension is a member UnitType
\* declares, and for the FLT division
D24_RootDimensionDeclared ==
    /\ (Done({"sqrt", "third_root", "fourth_root"}) /\ a.value.n >= 0
          /\ get_type(DividedDimension(a.flt, Divisor)) # "AttributeError")
       => (Returned /\ res.q.flt = DividedDimension(a.flt, Divisor))
    /\ Done({"flt_div"})
       => (res.kind = "flt" /\ res.flt = DividedDimension(a.flt, Divisor))

----------------------------------------------------------------------------
(* Properties of SpecDisplay.                                              *)

\* the unit create_with_standard_units constructs a class in: default_unit
\* for the unit-bearing classes, the sentinel for Unitless and Undefined
StandardUnit(cls) ==
    CASE cls = "Unitless" -> UNITLESS_UNIT
      [] cls = "Undefined" -> UNDEFINED_UNIT
      [] OTHER -> default_unit(cls)

\* C28: every quantity, operand or result, has its display unit equal to
\* its input unit; a quantity returned by an arithmetic operator, a root or
\* abs is displayed in the standard unit of its class, the sentinel for
\* Unitless and Undefined, whatever units the operands were constructed in.
C28_DisplayUnit ==
    /\ a.display_unit = a.input_unit
    /\ b.display_unit = b.input_unit
    /\ (pc = "done" /\ Returned)
       => /\ res.q.display_unit = res.q.input_unit
          /\ res.q.display_unit = StandardUnit(res.q.cls)

C28_FootPlusFoot ==
    /\ Done({"add"})
    /\ a = New("Length", One, "FOOT")
    /\ b = New("Length", One, "FOOT")
    /\ res = Ok(New("Length", FromInt(24), "INCH"))

====
